---- MODULE Spec2Model ----
(***************************************************************************)
(* The segment-timeline reconstruction pipeline of gojiplus/speech:        *)
(*   extract -> transcribe -> TextProcessor.process ->                     *)
(*   PiperTTSSynthesizer.synthesize -> AudioMixer.mix -> transcript        *)
(* as EnhancedSpeechTool.process runs them.                                *)
(* Times of segments are whole seconds, audio lengths are milliseconds     *)
(* (pydub's len()), as in the source.  An AudioSegment is the sequence of  *)
(* the chunks it was concatenated from.                                    *)
(***************************************************************************)
EXTENDS Integers, Sequences, FiniteSets, TLC

\* ---------------------------------------------------------------- bounds
MaxSegs == 2         \* longest segment list handed to process / synthesize / mix
MaxTime == 3         \* largest segment start/end, in seconds
MaxDur == 1          \* longest synthesized audio, in seconds
MaxTitle == 3        \* longest source title, in characters

\* audio_mixer.py:63  "* 1000  # Convert to ms"
MsPerSec == 1000

\* speech_synthesizer.py:113  f"segment_{i:04d}.wav", i = 0, 1, ...
SegFile == <<"segment_0000.wav", "segment_0001.wav", "segment_0002.wav",
             "segment_0003.wav", "segment_0004.wav">>

\* the word spoken by the i-th segment of an input (one word per position)
SegWords == <<"alpha", "beta", "gamma", "delta", "epsilon">>

VARIABLES
    pc,                 \* where the run is: "new", "extract", "transcribe",
                        \* "process", "synth", "mix", "done" (mix returned),
                        \* "returned", "raised", "cleaned", "aborted",
                        \* "config_error"
    fs,                 \* the file system: path -> content, for existing paths
    mix_segments,       \* AudioMixer.mix: the argument `segments`
    maintain_timing,    \* AudioMixer.mix: the argument `maintain_timing`
    mix_i,              \* AudioMixer.mix: enumerate index i of the next segment
    combined,           \* AudioMixer.mix: the local `combined`
    last_end_time,      \* AudioMixer.mix: the local `last_end_time`
    output,             \* the exported file: <<>> before export, <<track>> after
    alt_combined,       \* `combined` of a second mix of the same segments
    alt_last_end_time,  \* `last_end_time` of that second mix
    synth_segments,     \* synthesize: the argument `segments`
    piper,              \* what the piper process does for segment i (1-based)
    synth_i,            \* synthesize: enumerate index i of the next segment
    synthesized_segments, \* synthesize: the local `synthesized_segments`
    result_segments,    \* synthesize: the local `result_segments`
    synth_calls,        \* the indices i for which _synthesize_text was called
    transcription,      \* process: transcription["segments"]
    processor,          \* TextProcessor: remove_disfluencies, simplify_language
    processed_segments, \* process: the local `processed_segments`
    original_word_count,  \* process: the local `original_word_count`
    processed_word_count, \* process: the local `processed_word_count`
    reduction_percent,  \* process: `reduction_percent`, as num / den
    env,                \* what __init__ finds: piper installed, voice model
                        \* present, piper-download able to fetch it
    title,              \* EnhancedSpeechTool.process: the local `title`
    safe_title,         \* EnhancedSpeechTool.process: the local `safe_title`
    text_transcript,    \* the file at text_transcript_path: <<>> while it
                        \* does not exist, <<lines>> once opened for writing
    peer,               \* a synthesize call of another tool instance
    synth_log,          \* synthesize: the counts its two logger.info lines
                        \* gave, -1 while a line has not been logged
    error,              \* the exception process let out to its caller
    failing_stage,      \* the stage that was running when it was raised
    args,               \* main: the parsed command line
    config,             \* Config._config of the Config made last
    synthesizer,        \* PiperTTSSynthesizer: self.voice
    temp_dir,           \* the directory of tempfile.mkdtemp(): "none",
                        \* "exists" or "removed"
    DEFAULT_CONFIG,     \* the class attribute Config.DEFAULT_CONFIG
    config_file,        \* what is at config_path
    environ,            \* os.environ, the ESH_ variables
    transcriber         \* WhisperTranscriber: self.model and what it did

vars == <<pc, fs, mix_segments, maintain_timing, mix_i, combined,
          last_end_time, output, alt_combined, alt_last_end_time,
          synth_segments, piper, synth_i, synthesized_segments,
          result_segments, synth_calls, transcription, processor,
          processed_segments, original_word_count, processed_word_count,
          reduction_percent, env, title, safe_title, text_transcript, peer,
          synth_log, error, failing_stage, args, config, synthesizer,
          temp_dir, DEFAULT_CONFIG, config_file, environ, transcriber>>

procVars == <<transcription, processor, processed_segments,
              original_word_count, processed_word_count, reduction_percent>>

synthVars == <<synth_segments, piper, synth_i, synthesized_segments,
               result_segments, synth_calls, synth_log>>

mixVars == <<mix_i, combined, last_end_time, output>>
altVars == <<alt_combined, alt_last_end_time>>
toolVars == <<env, title, safe_title, text_transcript>>
errVars == <<error, failing_stage>>
mainVars == <<args, config, synthesizer, temp_dir>>
cfgVars == <<DEFAULT_CONFIG, config_file, environ>>
auxVars == <<errVars, mainVars, cfgVars, transcriber>>

\* ------------------------------------------------------------- helpers
Max(a, b) == IF a >= b THEN a ELSE b

\* dict.get(key, default)
Get(d, key, default) == IF key \in DOMAIN d THEN d[key] ELSE default

RECURSIVE SumDur(_)
\* len(AudioSegment) in ms: the lengths of its chunks added up
SumDur(track) ==
    IF track = <<>> THEN 0 ELSE track[1].dur + SumDur(Tail(track))

\* AudioSegment.silent(duration=d): d ms of silence; silent(0) is empty
Silent(d) == IF d > 0 THEN <<[kind |-> "silence", dur |-> d]>> ELSE <<>>

\* ------------------------------------------------------------ file system
\* tempfile.gettempdir() and the TemporaryDirectory of one synthesize call
SysTmp == "gettempdir"
WorkDir == "TemporaryDirectory"
Path(dir, name) == [dir |-> dir, name |-> name]
NoPath == Path("", "")                   \* None: the key is absent
TempDir == "mkdtemp"                     \* EnhancedSpeechTool.temp_dir
PeerDir == "TemporaryDirectory_peer"     \* the TemporaryDirectory of `peer`

\* what a file holds
Corrupt == [state |-> "corrupt"]
Audio(text, ms) == [state |-> "audio", text |-> text, dur |-> ms]

\* AudioSegment.from_file(path) raises unless the file exists and decodes
CanLoad(files, path) == path \in DOMAIN files /\ files[path].state = "audio"
FromFile(files, path) ==
    <<[kind |-> "audio", dur |-> files[path].dur, text |-> files[path].text]>>

\* ------------------------------------------------- AudioMixer.mix (body)
\* (a slip: the gap is measured from 0, not from last_end_time)
MixIteration_GapFromZero(segment, files, mt, comb, last) ==
    LET audio_file == Get(segment, "audio_file", NoPath)
    IN  IF audio_file = NoPath \/ ~CanLoad(files, audio_file)
        THEN [combined |-> comb, last_end_time |-> last, appended |-> FALSE]
        ELSE
          LET audio == FromFile(files, audio_file)
              start_time == Get(segment, "start", last)
              silence_duration == Max(0, start_time * MsPerSec)
          IN  [combined |-> comb \o Silent(silence_duration) \o audio,
               last_end_time |-> Get(segment, "end", start_time),
               appended |-> TRUE]


\* (a slip: the silence is appended after the segment's audio)
MixIteration_SilenceAfter(segment, files, mt, comb, last) ==
    LET audio_file == Get(segment, "audio_file", NoPath)
    IN  IF audio_file = NoPath \/ ~CanLoad(files, audio_file)
        THEN [combined |-> comb, last_end_time |-> last, appended |-> FALSE]
        ELSE
          LET audio == FromFile(files, audio_file)
              start_time == Get(segment, "start", last)
              silence_duration == Max(0, (start_time - last) * MsPerSec)
          IN  [combined |-> comb \o audio \o Silent(silence_duration),
               last_end_time |-> Get(segment, "end", start_time),
               appended |-> TRUE]

\* (a slip: the timing is updated before the audio is loaded, so a segment
\*  that fails to load still moves last_end_time)
MixIteration_TimingBeforeLoad(segment, files, mt, comb, last) ==
    LET audio_file == Get(segment, "audio_file", NoPath)
        start_time == Get(segment, "start", last)
        silence_duration == Max(0, (start_time - last) * MsPerSec)
    IN  IF audio_file = NoPath
        THEN [combined |-> comb, last_end_time |-> last, appended |-> FALSE]
        ELSE IF ~CanLoad(files, audio_file)
        THEN [combined |-> comb, last_end_time |-> Get(segment, "end", start_time),
              appended |-> FALSE]
        ELSE [combined |-> comb \o Silent(silence_duration)
                               \o FromFile(files, audio_file),
              last_end_time |-> Get(segment, "end", start_time),
              appended |-> TRUE]

\* (a slip: no silence is inserted at all)
MixIteration_NoSilence(segment, files, mt, comb, last) ==
    LET audio_file == Get(segment, "audio_file", NoPath)
    IN  IF audio_file = NoPath \/ ~CanLoad(files, audio_file)
        THEN [combined |-> comb, last_end_time |-> last, appended |-> FALSE]
        ELSE [combined |-> comb \o FromFile(files, audio_file),
              last_end_time |-> Get(segment, "end", Get(segment, "start", last)),
              appended |-> TRUE]

\* (a slip: the cursor is set to the segment's start, not its end)
MixIteration_CursorAtStart(segment, files, mt, comb, last) ==
    LET audio_file == Get(segment, "audio_file", NoPath)
    IN  IF audio_file = NoPath \/ ~CanLoad(files, audio_file)
        THEN [combined |-> comb, last_end_time |-> last, appended |-> FALSE]
        ELSE
          LET start_time == Get(segment, "start", last)
              silence_duration == Max(0, (start_time - last) * MsPerSec)
          IN  [combined |-> comb \o Silent(silence_duration)
                                 \o FromFile(files, audio_file),
               last_end_time |-> start_time, appended |-> TRUE]

\* (the other design: the cursor follows the audio actually appended)
MixIteration_CursorFromAudio(segment, files, mt, comb, last) ==
    LET audio_file == Get(segment, "audio_file", NoPath)
    IN  IF audio_file = NoPath \/ ~CanLoad(files, audio_file)
        THEN [combined |-> comb, last_end_time |-> last, appended |-> FALSE]
        ELSE
          LET audio == FromFile(files, audio_file)
              start_time == Get(segment, "start", last)
              silence_duration == Max(0, (start_time - last) * MsPerSec)
          IN  [combined |-> comb \o Silent(silence_duration) \o audio,
               last_end_time |-> start_time + (SumDur(audio) \div MsPerSec),
               appended |-> TRUE]

\* One iteration of the for loop of mix (audio_mixer.py:50-76): the try
\* body, its `continue`, and the except handler that swallows every error.
\* Yields the new values of the locals `combined` and `last_end_time`, and
\* whether line 72 (combined += audio) was reached.
MixIteration(segment, files, mt, comb, last) ==
    LET audio_file == Get(segment, "audio_file", NoPath)
    IN  IF audio_file = NoPath                      \* not audio_file: continue
        THEN [combined |-> comb, last_end_time |-> last, appended |-> FALSE]
        ELSE IF ~CanLoad(files, audio_file)         \* from_file raises: except
        THEN [combined |-> comb, last_end_time |-> last, appended |-> FALSE]
        ELSE
          LET audio == FromFile(files, audio_file)
              start_time == Get(segment, "start", last)
              silence_duration == Max(0, (start_time - last) * MsPerSec)
              with_silence ==
                  IF mt /\ silence_duration > 0
                  THEN comb \o Silent(silence_duration) ELSE comb
              new_last ==
                  IF mt
                  THEN Get(segment, "end",
                           start_time + (SumDur(audio) \div MsPerSec))
                  ELSE last
          IN  [combined |-> with_silence \o audio,
               last_end_time |-> new_last, appended |-> TRUE]

\* mix, lines 41-47: the locals before the loop
MixStart == [combined |-> Silent(0), last_end_time |-> 0]

\* ---------------------------------------------------------------- inputs
Times == 0..MaxTime
TimePairs == {p \in Times \X Times : p[1] <= p[2]}     \* end >= start
Durations == {d * MsPerSec : d \in 1..MaxDur}

\* what can be behind a segment handed to mix: no audio_file entry, a file
\* that does not decode, or audio of some length
MixInputKinds ==
    {[state |-> "nofile", dur |-> 0], [state |-> "corrupt", dur |-> 0]}
        \cup {[state |-> "audio", dur |-> d] : d \in Durations}

MixSegment(k, p, kind) ==
    IF kind.state = "nofile"
    THEN [start |-> p[1], end |-> p[2]]
    ELSE [start |-> p[1], end |-> p[2], audio_file |-> Path(SysTmp, SegFile[k])]

MixFile(k, kind) ==
    IF kind.state = "corrupt" THEN Corrupt ELSE Audio(<<SegWords[k]>>, kind.dur)

\* ------------------------------------------------------------------ Init
\* piper installed, the voice model in models_dir: __init__ raises nothing
DefaultEnv == [installed |-> TRUE, voice |-> TRUE, download |-> TRUE]

\* ------------------------------------------------------------- Config
\* Python values of several types in one place: the type goes with the value
StrValue(s) == [t |-> "str", v |-> s]
IntValue(n) == [t |-> "int", v |-> n]
BoolValue(b) == [t |-> "bool", v |-> b]
FloatValue(whole, frac) == [t |-> "float", v |-> <<whole, frac>>]
DictValue(d) == [t |-> "dict", v |-> d]

\* bool(value), as `if self.remove_disfluencies:` takes it
Truthy(value) ==
    CASE value.t = "bool" -> value.v
      [] value.t = "int" -> value.v # 0
      [] value.t = "str" -> value.v # <<>>
      [] value.t = "dict" -> DOMAIN value.v # {}
      [] OTHER -> TRUE

\* the voice names of the model
Lessac == <<"l", "e", "s", "s", "a", "c">>
Amy == <<"a", "m", "y">>

\* Config.DEFAULT_CONFIG as the class body defines it (config.py:17-45), the
\* keys the tool reads and the nested section
BuiltinConfig ==
    [remove_disfluencies |-> BoolValue(TRUE),
     simplify_language |-> BoolValue(FALSE),
     voice |-> StrValue(Lessac),
     speaker |-> IntValue(0),
     experimental |-> DictValue([enable_speaker_diarization |-> BoolValue(FALSE),
                                 enable_language_model_rescoring |->
                                     BoolValue(FALSE)])]

\* env_mapping (config.py:87-100), for the keys above
EnvMapping ==
    [ESH_REMOVE_DISFLUENCIES |-> "remove_disfluencies",
     ESH_SIMPLIFY_LANGUAGE |-> "simplify_language",
     ESH_VOICE |-> "voice",
     ESH_SPEAKER |-> "speaker"]

DigitChars == <<"0", "1", "2", "3", "4", "5", "6", "7", "8", "9">>

\* str.lower(), character by character
LowerChar(c) ==
    CASE c = "T" -> "t" [] c = "R" -> "r" [] c = "U" -> "u" [] c = "E" -> "e"
      [] c = "Y" -> "y" [] c = "S" -> "s" [] c = "N" -> "n" [] c = "O" -> "o"
      [] c = "F" -> "f" [] c = "A" -> "a" [] c = "L" -> "l"
      [] OTHER -> c

LowerStr(value) == [i \in 1..Len(value) |-> LowerChar(value[i])]

\* str.isdigit(): not empty and nothing but digits
IsDigit(value) ==
    /\ Len(value) > 0
    /\ \A i \in 1..Len(value) : \E d \in 1..10 : DigitChars[d] = value[i]

\* int(value) of a string of digits
RECURSIVE ParseInt(_)
ParseInt(value) ==
    IF Len(value) = 0 THEN 0
    ELSE 10 * ParseInt(SubSeq(value, 1, Len(value) - 1))
         + (CHOOSE d \in 1..10 : DigitChars[d] = value[Len(value)]) - 1

\* value.replace(".", "", 1)
RECURSIVE RemoveFirstDot(_)
RemoveFirstDot(value) ==
    IF Len(value) = 0 THEN value
    ELSE IF Head(value) = "." THEN Tail(value)
    ELSE <<Head(value)>> \o RemoveFirstDot(Tail(value))

\* float(value) of digits with one "." among them
ParseFloat(value) ==
    LET dot == CHOOSE i \in 1..Len(value) : value[i] = "."
    IN  FloatValue(ParseInt(SubSeq(value, 1, dot - 1)),
                   SubSeq(value, dot + 1, Len(value)))

\* _load_from_env, the conversion of one value (config.py:107-120): the
\* boolean words first, "1" and "0" among them; then isdigit(), which a bool
\* does not have (AttributeError, passed over)
ConvertEnv(value) ==
    IF LowerStr(value) \in {<<"t", "r", "u", "e">>, <<"y", "e", "s">>, <<"1">>}
    THEN BoolValue(TRUE)
    ELSE IF LowerStr(value) \in
                {<<"f", "a", "l", "s", "e">>, <<"n", "o">>, <<"0">>}
    THEN BoolValue(FALSE)
    ELSE IF IsDigit(value) THEN IntValue(ParseInt(value))
    ELSE IF IsDigit(RemoveFirstDot(value)) THEN ParseFloat(value)
    ELSE StrValue(value)

\* _load_from_env (config.py:84-124): every mapped variable that is set
\* replaces its key
LoadFromEnv(cfg, environment) ==
    [key \in DOMAIN cfg |->
        IF \E var \in DOMAIN environment :
              var \in DOMAIN EnvMapping /\ EnvMapping[var] = key
        THEN ConvertEnv(environment[CHOOSE var \in DOMAIN environment :
                 var \in DOMAIN EnvMapping /\ EnvMapping[var] = key])
        ELSE cfg[key]]

\* _update_config (config.py:126-139): a dict given for a key that holds a
\* dict is merged into it, anything else replaces the key
UpdateConfig(cfg, new_config) ==
    [key \in DOMAIN cfg \cup DOMAIN new_config |->
        IF key \notin DOMAIN new_config THEN cfg[key]
        ELSE IF /\ new_config[key].t = "dict"
                /\ key \in DOMAIN cfg
                /\ cfg[key].t = "dict"
        THEN DictValue([nested \in DOMAIN cfg[key].v
                                     \cup DOMAIN new_config[key].v |->
                           IF nested \in DOMAIN new_config[key].v
                           THEN new_config[key].v[nested]
                           ELSE cfg[key].v[nested]])
        ELSE new_config[key]]

\* no ESH_ variable is set
NoEnviron == [var \in {} |-> <<>>]

\* no config_path was given
NoConfigFile == [state |-> "none", content |-> <<>>]
\* open() or json.load() raises on the file
BadConfigFile == [state |-> "unreadable", content |-> <<>>]
\* the file holds the JSON object `content`
ConfigFile(content) == [state |-> "loaded", content |-> content]

\* _load_from_file (config.py:66-82): the error of an unreadable file is
\* logged, nothing else happens
LoadFromFile(cfg, file) ==
    IF file.state = "loaded" THEN UpdateConfig(cfg, file.content) ELSE cfg

\* Config.__init__ (config.py:47-64). DEFAULT_CONFIG.copy() is shallow: the
\* dict under a key of the copy is the dict under that key of the class
\* attribute, so what _update_config merges into it is in `defaults` too
ConfigInit(defaults, file, environment) ==
    LET copied == defaults
        loaded == IF file.state = "none" THEN copied
                  ELSE LoadFromFile(copied, file)
        merged == [key \in DOMAIN defaults |->
                     IF defaults[key].t = "dict" /\ loaded[key].t = "dict"
                     THEN loaded[key] ELSE defaults[key]]
    IN  [config |-> LoadFromEnv(loaded, environment), defaults |-> merged]

\* ------------------------------------------------------- nothing running
\* synthesize has not been entered: neither line was logged
NoSynthLog == [requested |-> -1, succeeded |-> -1]

\* synthesize, line 93: logger.info(f"Synthesizing speech for
\* {len(segments)} segments"); with no segment the loop is through at once
\* and line 132 follows
SynthLogEntry(segments) ==
    [requested |-> Len(segments),
     succeeded |-> IF Len(segments) = 0 THEN 0 ELSE -1]

\* (a slip: the second line counts the segments given)
SynthLogLoopEnd_CountsRequested(log, synthesized) ==
    [log EXCEPT !.succeeded = log.requested]

\* synthesize, line 132, reached when the loop over the segments is through:
\* logger.info(f"Successfully synthesized {len(synthesized_segments)}
\* segments")
SynthLogLoopEnd(log, synthesized) ==
    [log EXCEPT !.succeeded = Len(synthesized)]

\* no exception has left process
NoError == [type |-> "none"]

\* the exception a failing stage lets out, as the code or the library call
\* at that place raises it: it has its class and its message, and the except
\* clause of process (enhanced_speech_tool.py:121-125) raises it again as it
\* is
StageError(stage) ==
    CASE stage = "transcribe" -> [type |-> "RuntimeError"]
      [] stage = "synthesize" -> [type |-> "FileNotFoundError"]
      [] OTHER -> [type |-> "OSError"]
\* main started without options
NoArgs == [voice |-> <<>>, no_disfluencies |-> FALSE, simplify |-> FALSE,
           output_dir |-> "none"]
\* WhisperTranscriber.__init__ (transcriber.py:43): self.model = None
NewTranscriber ==
    [model |-> "None",      \* self.model
     calls |-> 0,           \* calls of transcribe
     attempts |-> 0,        \* calls of whisper.load_model
     loads |-> 0,           \* those that returned a model
     runs |-> 0,            \* calls of self.model.transcribe
     last |-> "none"]       \* how the last call of transcribe ended

\* no main, no Config and no transcriber around the call
AuxIdle ==
    /\ error = NoError
    /\ failing_stage = "none"
    /\ args = NoArgs
    /\ config = BuiltinConfig
    /\ synthesizer = [voice |-> StrValue(Lessac)]
    /\ temp_dir = "none"
    /\ DEFAULT_CONFIG = BuiltinConfig
    /\ config_file = NoConfigFile
    /\ environ = NoEnviron
    /\ transcriber = NewTranscriber

\* no EnhancedSpeechTool around the call: no title, no transcript file
ToolIdle ==
    /\ env = DefaultEnv
    /\ title = <<>>
    /\ safe_title = <<>>
    /\ text_transcript = <<>>
    /\ AuxIdle

\* no other tool instance is running
NoPeer == [pc |-> "none", n |-> 0, i |-> 0, copied |-> 0]

\* the state of a call AudioMixer.mix(segments, output_path) on entry
MixEntry(segments, files) ==
    /\ mix_segments = segments
    /\ fs = files
    /\ maintain_timing = TRUE               \* the default; no caller passes it
    /\ pc = "mix"
    /\ mix_i = 0
    /\ combined = MixStart.combined
    /\ last_end_time = MixStart.last_end_time
    /\ output = <<>>
    /\ alt_combined = MixStart.combined
    /\ alt_last_end_time = MixStart.last_end_time
    /\ synth_segments = <<>>
    /\ piper = <<>>
    /\ synth_i = 0
    /\ synthesized_segments = <<>>
    /\ result_segments = <<>>
    /\ synth_calls = <<>>
    /\ synth_log = NoSynthLog
    /\ transcription = <<>>
    /\ processor = [remove_disfluencies |-> TRUE, simplify_language |-> FALSE]
    /\ processed_segments = <<>>
    /\ original_word_count = 0
    /\ processed_word_count = 0
    /\ reduction_percent = [num |-> 0, den |-> 1]

\* A direct call of AudioMixer.mix on any list of segments
InitMix ==
    /\ ToolIdle
    /\ peer = NoPeer
    /\ \E n \in 0..MaxSegs :
      \E tp \in [1..n -> TimePairs], kd \in [1..n -> MixInputKinds] :
        MixEntry([k \in 1..n |-> MixSegment(k, tp[k], kd[k])],
                 [path \in {Path(SysTmp, SegFile[k]) :
                               k \in {j \in 1..n : kd[j].state # "nofile"}} |->
                   LET k == CHOOSE j \in 1..n : SegFile[j] = path.name
                   IN  MixFile(k, kd[k])])

\* --------------------------------------------------------------- actions
\* AudioMixer.mix, one pass of `for i, segment in enumerate(segments)`
MixIter ==
    /\ pc = "mix"
    /\ mix_i < Len(mix_segments)
    /\ LET r == MixIteration(mix_segments[mix_i + 1], fs, maintain_timing,
                             combined, last_end_time)
       IN  /\ combined' = r.combined
           /\ last_end_time' = r.last_end_time
    /\ mix_i' = mix_i + 1
    /\ UNCHANGED <<pc, fs, mix_segments, maintain_timing, output, altVars,
                   synthVars, procVars, toolVars, peer,
                   auxVars>>

\* AudioMixer.mix, lines 78-96: the loop is over, export and return
MixExport ==
    /\ pc = "mix"
    /\ mix_i = Len(mix_segments)
    /\ output' = <<combined>>
    /\ pc' = "done"
    /\ UNCHANGED <<fs, mix_segments, maintain_timing, mix_i, combined,
                   last_end_time, altVars, synthVars, procVars, toolVars,
                   peer,
                   auxVars>>

NextMix == MixIter \/ MixExport

SpecMix == InitMix /\ [][NextMix]_vars

\* ---- two mixes of the same segments, the second with longer audio -------
\* an audio length no segment window (end - start) can hold
Overlong == (MaxTime + 1) * MsPerSec

\* the same files, each decoding to audio of length Overlong
Stretched(files) ==
    [path \in DOMAIN files |->
        IF files[path].state = "audio"
        THEN Audio(files[path].text, Overlong) ELSE files[path]]

\* one pass of the loop in both mixes
MixPairIter ==
    /\ pc = "mix"
    /\ mix_i < Len(mix_segments)
    /\ LET r == MixIteration(mix_segments[mix_i + 1], fs, maintain_timing,
                             combined, last_end_time)
           a == MixIteration(mix_segments[mix_i + 1], Stretched(fs),
                             maintain_timing, alt_combined, alt_last_end_time)
       IN  /\ combined' = r.combined
           /\ last_end_time' = r.last_end_time
           /\ alt_combined' = a.combined
           /\ alt_last_end_time' = a.last_end_time
    /\ mix_i' = mix_i + 1
    /\ UNCHANGED <<pc, fs, mix_segments, maintain_timing, output, synthVars,
                   procVars, toolVars, peer,
                   auxVars>>

NextPair == MixPairIter \/ MixExport

SpecPair == InitMix /\ [][NextPair]_vars

\* ---- AudioMixer.mix beside SpeechClarityEnhancer.combine_audio ------------
\* a segment as synthesize_speech of speech_clarity_enhancer_local.py hands
\* it to combine_audio: the path is under "file"
AsSynthesizedFile(segment) ==
    [file |-> segment.audio_file, start |-> segment.start, end |-> segment.end]

\* (a slip: the cursor moves to the segment's end although it did not load)
CombineIteration_CursorOnFailure(segment, files, comb, last) ==
    IF ~CanLoad(files, segment.file)
    THEN [combined |-> comb, last_end |-> segment.end]
    ELSE
      LET audio == FromFile(files, segment.file)
          start_time == segment.start
          silence_duration == Max(0, (start_time - last) * MsPerSec)
          with_silence == IF silence_duration > 0
                          THEN comb \o Silent(silence_duration) ELSE comb
      IN  [combined |-> with_silence \o audio, last_end |-> segment.end]

\* One pass of the loop of combine_audio
\* (speech_clarity_enhancer_local.py:257-275): load, silence up to start,
\* the audio, last_end = end; a load error is printed and the pass is over
CombineIteration(segment, files, comb, last) ==
    IF ~CanLoad(files, segment.file)
    THEN [combined |-> comb, last_end |-> last]
    ELSE
      LET audio == FromFile(files, segment.file)
          start_time == segment.start
          silence_duration == Max(0, (start_time - last) * MsPerSec)
          with_silence == IF silence_duration > 0
                          THEN comb \o Silent(silence_duration) ELSE comb
      IN  [combined |-> with_silence \o audio, last_end |-> segment.end]

\* combine_audio, lines 252-255: AudioSegment.empty() and last_end = 0
CombineStart == [combined |-> <<>>, last_end |-> 0]

\* mix and combine_audio are given the same segments, every one with start,
\* end and a file that loads or does not
InitAssemble ==
    /\ ToolIdle
    /\ peer = NoPeer
    /\ \E n \in 0..MaxSegs :
         \E tp \in [1..n -> TimePairs],
            kd \in [1..n -> {k \in MixInputKinds : k.state # "nofile"}] :
           /\ MixEntry([k \in 1..n |-> MixSegment(k, tp[k], kd[k])],
                       [path \in {Path(SysTmp, SegFile[k]) : k \in 1..n} |->
                          LET k == CHOOSE j \in 1..n : SegFile[j] = path.name
                          IN  MixFile(k, kd[k])])
           /\ alt_combined = CombineStart.combined
           /\ alt_last_end_time = CombineStart.last_end

\* one pass of the loop in mix and in combine_audio
AssembleIter ==
    /\ pc = "mix"
    /\ mix_i < Len(mix_segments)
    /\ LET r == MixIteration(mix_segments[mix_i + 1], fs, maintain_timing,
                             combined, last_end_time)
           a == CombineIteration(AsSynthesizedFile(mix_segments[mix_i + 1]),
                                 fs, alt_combined, alt_last_end_time)
       IN  /\ combined' = r.combined
           /\ last_end_time' = r.last_end_time
           /\ alt_combined' = a.combined
           /\ alt_last_end_time' = a.last_end
    /\ mix_i' = mix_i + 1
    /\ UNCHANGED <<pc, fs, mix_segments, maintain_timing, output, synthVars,
                   procVars, toolVars, peer,
                   auxVars>>

NextAssemble == AssembleIter \/ MixExport

SpecAssemble == InitAssemble /\ [][NextAssemble]_vars

\* ------------------------------------------------------------------ text
\* A text is the sequence of its tokens: words, and Space for whitespace.
Space == " "

RECURSIVE LStrip(_)
LStrip(text) ==
    IF text # <<>> /\ text[1] = Space THEN LStrip(Tail(text)) ELSE text

RECURSIVE RStrip(_)
RStrip(text) ==
    IF text # <<>> /\ text[Len(text)] = Space
    THEN RStrip(SubSeq(text, 1, Len(text) - 1)) ELSE text

\* str.strip()
Strip(text) == RStrip(LStrip(text))

\* str.split(): the words of a text
Split(text) == SelectSeq(text, LAMBDA tok : tok # Space)

\* ------------------------------------------------------------- safe_title
\* A title is the sequence of its characters.
Tab == "\t"
Whitespace == {Space, Tab}                       \* \s
WordChars == {"a", "7", "_"}                     \* \w: letters, digits, _
TitleChars == WordChars \cup Whitespace \cup {"-", "!"}

RECURSIVE LStripWs(_)
LStripWs(t) ==
    IF t # <<>> /\ t[1] \in Whitespace THEN LStripWs(Tail(t)) ELSE t

RECURSIVE RStripWs(_)
RStripWs(t) ==
    IF t # <<>> /\ t[Len(t)] \in Whitespace
    THEN RStripWs(SubSeq(t, 1, Len(t) - 1)) ELSE t

\* re.sub(r'[^\w\s-]', '', title).strip().replace(' ', '_')
\* (enhanced_speech_tool.py:106, speech_clarity_enhancer_local.py:278)
SafeTitle(t) ==
    LET kept == SelectSeq(t, LAMBDA c : c \in WordChars \cup Whitespace \cup {"-"})
        stripped == RStripWs(LStripWs(kept))
    IN  [j \in 1..Len(stripped) |->
            IF stripped[j] = Space THEN "_" ELSE stripped[j]]

\* every title of at most MaxTitle characters
Titles == UNION {[1..n -> TitleChars] : n \in 0..MaxTitle}

\* ------------------------------------------- PiperTTSSynthesizer.synthesize
\* what the piper process started by _synthesize_text can do: write the wav
\* and exit 0; fail (Popen raises, or a non-zero exit: _synthesize_text
\* raises); exit 0 without having written the output file
PiperOutcomes == {"ok", "error", "nofile"}

\* the audio piper speaks for a text: a second per word
SpeechMs(text) == Len(Split(text)) * MsPerSec

\* open(path, "w"): the file system with `content` at `path`
Write(files, path, content) ==
    [q \in DOMAIN files \cup {path} |-> IF q = path THEN content ELSE files[q]]

\* TemporaryDirectory.__exit__: the directory and what is in it are removed
Cleanup(files) ==
    [q \in {r \in DOMAIN files : r.dir # WorkDir} |-> files[q]]

\* shutil.rmtree(dir), and the __exit__ of another TemporaryDirectory
RemoveTree(files, dir) ==
    [q \in {r \in DOMAIN files : r.dir # dir} |-> files[q]]

\* a file that holds no synthesized speech: source audio, json, text
Document == [state |-> "document"]

\* (a slip: the new segment is put in front of the list)
SynthIteration_Prepend(segment, i, outcome, files, synthesized) ==
    LET text == Strip(segment.text)
        output_file == Path(WorkDir, SegFile[i + 1])
    IN  IF text = <<>> \/ outcome = "error"
        THEN [files |-> files, synthesized |-> synthesized,
              called |-> text # <<>>]
        ELSE [files |-> IF outcome = "ok"
                        THEN Write(files, output_file,
                                   Audio(text, SpeechMs(text)))
                        ELSE files,
              synthesized |-> <<[text |-> text, start |-> segment.start,
                                 end |-> segment.end,
                                 audio_file |-> output_file]>> \o synthesized,
              called |-> TRUE]

\* (the other design: a failed segment is replaced by silence of its window)
SynthIteration_Placeholder(segment, i, outcome, files, synthesized) ==
    LET text == Strip(segment.text)
        output_file == Path(WorkDir, SegFile[i + 1])
    IN  IF text = <<>>
        THEN [files |-> files, synthesized |-> synthesized, called |-> FALSE]
        ELSE [files |-> IF outcome = "ok"
                        THEN Write(files, output_file,
                                   Audio(text, SpeechMs(text)))
                        ELSE Write(files, output_file, Audio(<<>>, MsPerSec)),
              synthesized |-> Append(synthesized,
                                [text |-> text, start |-> segment.start,
                                 end |-> segment.end,
                                 audio_file |-> output_file]),
              called |-> TRUE]

\* (a slip: a segment of blank text is handed to piper like any other)
SynthIteration_CallsBlank(segment, i, outcome, files, synthesized) ==
    LET text == Strip(segment.text)
        output_file == Path(WorkDir, SegFile[i + 1])
    IN  IF outcome = "error"
        THEN [files |-> files, synthesized |-> synthesized, called |-> TRUE]
        ELSE [files |-> IF outcome = "ok"
                        THEN Write(files, output_file,
                                   Audio(text, SpeechMs(text)))
                        ELSE files,
              synthesized |-> Append(synthesized,
                                [text |-> text, start |-> segment.start,
                                 end |-> segment.end,
                                 audio_file |-> output_file]),
              called |-> TRUE]

\* One pass of the first loop of synthesize (speech_synthesizer.py:102-130)
\* for the segment with enumerate index i: the new file system and
\* synthesized_segments, and whether _synthesize_text was called.
SynthIteration(segment, i, outcome, files, synthesized) ==
    LET text == Strip(segment.text)
        start_time == segment.start
        end_time == segment.end
        output_file == Path(WorkDir, SegFile[i + 1])
    IN  IF text = <<>>                              \* not text: continue
        THEN [files |-> files, synthesized |-> synthesized, called |-> FALSE]
        ELSE IF outcome = "error"                   \* raised: except, continue
        THEN [files |-> files, synthesized |-> synthesized, called |-> TRUE]
        ELSE [files |-> IF outcome = "ok"
                        THEN Write(files, output_file,
                                   Audio(text, SpeechMs(text)))
                        ELSE files,
              synthesized |-> Append(synthesized,
                                [text |-> text, start |-> start_time,
                                 end |-> end_time,
                                 audio_file |-> output_file]),
              called |-> TRUE]

\* One pass of the second loop of synthesize (speech_synthesizer.py:137-144):
\* shutil.copy2 raises when the source file does not exist, and nothing
\* catches it.
CopyIteration(segment, files, result) ==
    LET source_file == segment.audio_file
        target_file == Path(SysTmp, source_file.name)
    IN  IF source_file \notin DOMAIN files
        THEN [raised |-> TRUE, files |-> files, result |-> result]
        ELSE [raised |-> FALSE,
              files |-> Write(files, target_file, files[source_file]),
              result |-> Append(result,
                                [segment EXCEPT !.audio_file = target_file])]

\* no file anywhere
NoFiles == [q \in {} |-> Corrupt]

\* the state of a call synthesize(segments) on entry, piper behaving as `pp`
SynthEntry(segments, pp) ==
    /\ synth_segments = segments
    /\ piper = pp
    /\ pc = "synth"
    /\ fs = NoFiles
    /\ synth_i = 0
    /\ synthesized_segments = <<>>
    /\ result_segments = <<>>
    /\ synth_calls = <<>>
    /\ synth_log = SynthLogEntry(segments)
    /\ mix_segments = <<>>
    /\ maintain_timing = TRUE
    /\ mix_i = 0
    /\ combined = MixStart.combined
    /\ last_end_time = MixStart.last_end_time
    /\ output = <<>>
    /\ alt_combined = MixStart.combined
    /\ alt_last_end_time = MixStart.last_end_time
    /\ transcription = <<>>
    /\ processor = [remove_disfluencies |-> TRUE, simplify_language |-> FALSE]
    /\ processed_segments = <<>>
    /\ original_word_count = 0
    /\ processed_word_count = 0
    /\ reduction_percent = [num |-> 0, den |-> 1]

\* segment timings as a transcriber emits them: chronological, start_k at
\* least end_(k-1)
Chronological(tp) ==
    \A k \in DOMAIN tp : k > 1 => tp[k][1] >= tp[k - 1][2]

\* A direct call of synthesize on any chronological list of segments, its
\* result handed to mix as EnhancedSpeechTool.process does
InitSynth ==
    /\ ToolIdle
    /\ peer = NoPeer
    /\ \E n \in 0..MaxSegs :
      \E tp \in {t \in [1..n -> TimePairs] : Chronological(t)},
         tx \in [1..n -> BOOLEAN], pp \in [1..n -> PiperOutcomes] :
        /\ \A k \in 1..n : ~tx[k] => pp[k] = "ok"
        /\ SynthEntry([k \in 1..n |->
                          [text |-> IF tx[k] THEN <<Space, SegWords[k]>>
                                    ELSE <<Space>>,
                           start |-> tp[k][1], end |-> tp[k][2]]],
                      pp)

\* synthesize, one pass of `for i, segment in enumerate(segments)`
SynthIter ==
    /\ pc = "synth"
    /\ synth_i < Len(synth_segments)
    /\ LET r == SynthIteration(synth_segments[synth_i + 1], synth_i,
                               piper[synth_i + 1], fs, synthesized_segments)
       IN  /\ fs' = r.files
           /\ synthesized_segments' = r.synthesized
           /\ synth_calls' = IF r.called THEN Append(synth_calls, synth_i)
                             ELSE synth_calls
           /\ synth_log' = IF synth_i + 1 = Len(synth_segments)
                           THEN SynthLogLoopEnd(synth_log, r.synthesized)
                           ELSE synth_log
    /\ synth_i' = synth_i + 1
    /\ UNCHANGED <<pc, synth_segments, piper, result_segments, mix_segments,
                   maintain_timing, mixVars, altVars, procVars, toolVars,
                   peer,
                   auxVars>>

\* synthesize, one pass of `for segment in synthesized_segments`; an error
\* leaves the with block (the TemporaryDirectory is removed) and synthesize
SynthCopy ==
    /\ pc = "synth"
    /\ synth_i = Len(synth_segments)
    /\ Len(result_segments) < Len(synthesized_segments)
    /\ LET r == CopyIteration(synthesized_segments[Len(result_segments) + 1],
                              fs, result_segments)
       IN  IF r.raised
           THEN /\ pc' = "raised"
                /\ fs' = Cleanup(fs)
                /\ error' = StageError("synthesize")
                /\ failing_stage' = "synthesize"
                /\ UNCHANGED result_segments
           ELSE /\ pc' = pc
                /\ fs' = r.files
                /\ result_segments' = r.result
                /\ UNCHANGED errVars
    /\ UNCHANGED <<synth_segments, piper, synth_i, synthesized_segments,
                   synth_calls, synth_log, mix_segments, maintain_timing,
                   mixVars, altVars, procVars, toolVars, peer, mainVars,
                   cfgVars, transcriber>>

\* (a slip: synthesize hands over while its copy loop is still running)
SynthReturn_Early ==
    /\ pc = "synth"
    /\ synth_i = Len(synth_segments)
    /\ fs' = Cleanup(fs)
    /\ mix_segments' = result_segments
    /\ safe_title' = SafeTitle(title)
    /\ pc' = "mix"
    /\ UNCHANGED <<synthVars, maintain_timing, mixVars, altVars, procVars,
                   env, title, text_transcript, peer,
                   auxVars>>

\* synthesize returns result_segments (the TemporaryDirectory is removed);
\* EnhancedSpeechTool.process names the output after the title and hands the
\* segments to mix (enhanced_speech_tool.py:102-109)
SynthReturn ==
    /\ pc = "synth"
    /\ synth_i = Len(synth_segments)
    /\ Len(result_segments) = Len(synthesized_segments)
    /\ fs' = Cleanup(fs)
    /\ mix_segments' = result_segments
    /\ safe_title' = SafeTitle(title)
    /\ pc' = "mix"
    /\ UNCHANGED <<synthVars, maintain_timing, mixVars, altVars, procVars,
                   env, title, text_transcript, peer,
                   auxVars>>

NextSynth == SynthIter \/ SynthCopy \/ SynthReturn \/ MixIter \/ MixExport

SpecSynth == InitSynth /\ [][NextSynth]_vars

\* --------------------------------------------------- TextProcessor.process
\* str.lower() / str.upper() of the first letter, on the words of the model
Lower(tok) ==
    CASE tok = "Um" -> "um"
      [] tok = "Alpha" -> "alpha"
      [] tok = "Beta" -> "beta"
      [] tok = "Gamma" -> "gamma"
      [] tok = "Delta" -> "delta"
      [] tok = "Epsilon" -> "epsilon"
      [] tok = "Utilize" -> "utilize"
      [] OTHER -> tok

Upper(tok) ==
    CASE tok = "um" -> "Um"
      [] tok = "alpha" -> "Alpha"
      [] tok = "beta" -> "Beta"
      [] tok = "gamma" -> "Gamma"
      [] tok = "delta" -> "Delta"
      [] tok = "epsilon" -> "Epsilon"
      [] tok = "utilize" -> "Utilize"
      [] tok = "use" -> "Use"
      [] OTHER -> tok

\* TextProcessor.DISFLUENCIES (text_processor.py:16-22), each pattern as the
\* phrase it matches, in the order of the list
DISFLUENCIES ==
    << <<"um">>, <<"uh">>, <<"er">>, <<"ah">>, <<"mm">>, <<"like">>,
       <<"you", Space, "know">>, <<"i", Space, "mean">>, <<"so">>,
       <<"actually">>, <<"basically">>, <<"literally">>,
       <<"kind", Space, "of">>, <<"sort", Space, "of">>,
       <<"a", Space, "little", Space, "bit">>, <<"i", Space, "guess">>,
       <<"well">>, <<"anyway">>, <<"right">> >>

MatchesAt(text, phrase) ==
    /\ Len(text) >= Len(phrase)
    /\ \A j \in 1..Len(phrase) : Lower(text[j]) = phrase[j]

RECURSIVE SubPhrase(_, _)
\* re.sub(pattern, ' ', text, flags=re.IGNORECASE)
SubPhrase(text, phrase) ==
    IF text = <<>> THEN <<>>
    ELSE IF MatchesAt(text, phrase)
    THEN <<Space>> \o SubPhrase(SubSeq(text, Len(phrase) + 1, Len(text)), phrase)
    ELSE <<text[1]>> \o SubPhrase(Tail(text), phrase)

RECURSIVE SubAll(_, _, _)
\* for pattern in self.DISFLUENCIES: text = re.sub(...)
SubAll(text, patterns, k) ==
    IF k > Len(patterns) THEN text
    ELSE SubAll(SubPhrase(text, patterns[k]), patterns, k + 1)

RECURSIVE SkipRepeats(_, _)
\* what is left of `rest` after every leading (\s+ word) has been consumed
SkipRepeats(rest, word) ==
    LET after == LStrip(rest)
    IN  IF after # <<>> /\ Len(after) < Len(rest) /\ after[1] = word
        THEN SkipRepeats(Tail(after), word)
        ELSE rest

RECURSIVE Dedup(_)
\* re.sub(r'(\b\w+\b)(\s+\1\b)+', r'\1', text): REPETITIONS
Dedup(text) ==
    IF text = <<>> THEN <<>>
    ELSE IF text[1] = Space THEN <<Space>> \o Dedup(Tail(text))
    ELSE <<text[1]>> \o Dedup(SkipRepeats(Tail(text), text[1]))

RECURSIVE CollapseSpaces(_)
\* re.sub(r'\s+', ' ', text)
CollapseSpaces(text) ==
    IF text = <<>> THEN <<>>
    ELSE IF text[1] = Space
    THEN <<Space>> \o CollapseSpaces(LStrip(text))
    ELSE <<text[1]>> \o CollapseSpaces(Tail(text))

\* _capitalize_sentences (text_processor.py:170-189); the texts of the model
\* hold no sentence punctuation, so the text is one sentence
CapitalizeSentences(text) ==
    IF text = <<>> THEN text ELSE [text EXCEPT ![1] = Upper(text[1])]

\* _remove_disfluencies (text_processor.py:91-134); no text of the model
\* matches a FALSE_STARTS pattern
RemoveDisfluencies(text) ==
    Strip(CapitalizeSentences(CollapseSpaces(Dedup(
        SubAll(text, DISFLUENCIES, 1)))))

\* _simplify_language (text_processor.py:136-168): the complex_words table
SimplifyWord(tok) ==
    CASE Lower(tok) = "utilize" -> "use"
      [] Lower(tok) = "procure" -> "get"
      [] Lower(tok) = "optimal" -> "best"
      [] Lower(tok) = "purchase" -> "buy"
      [] Lower(tok) = "sufficient" -> "enough"
      [] Lower(tok) = "require" -> "need"
      [] Lower(tok) = "obligation" -> "duty"
      [] Lower(tok) \in {"terminate", "termination"} -> "end"
      [] Lower(tok) = "initiate" -> "start"
      [] Lower(tok) \in {"finalize", "finalized"} -> "finish"
      [] Lower(tok) \in {"subsequent", "subsequently"} -> "later"
      [] OTHER -> tok

SimplifyLanguage(text) == [j \in 1..Len(text) |-> SimplifyWord(text[j])]

\* (a slip: the text is stripped even when nothing is to be cleaned)
CleanText_Strips(text, proc) ==
    LET t1 == IF proc.remove_disfluencies THEN RemoveDisfluencies(text)
              ELSE Strip(text)
    IN  IF proc.simplify_language THEN SimplifyLanguage(t1) ELSE t1

\* process, lines 65-73: the text of one segment, cleaned
CleanText(text, proc) ==
    LET t1 == IF proc.remove_disfluencies THEN RemoveDisfluencies(text)
              ELSE text
    IN  IF proc.simplify_language THEN SimplifyLanguage(t1) ELSE t1

RECURSIVE ProcessSegments_KeepsBlank(_, _, _)
\* (a slip: only the empty text is dropped, a text of spaces is kept)
ProcessSegments_KeepsBlank(segments, proc, k) ==
    IF k > Len(segments) THEN <<>>
    ELSE LET segment == segments[k]
             processed_text == CleanText(segment.text, proc)
         IN  (IF processed_text # <<>>
              THEN <<[text |-> processed_text, start |-> segment.start,
                      end |-> segment.end]>>
              ELSE <<>>) \o ProcessSegments_KeepsBlank(segments, proc, k + 1)

RECURSIVE ProcessSegments(_, _, _)
\* process, lines 64-80: the loop, from position k on
ProcessSegments(segments, proc, k) ==
    IF k > Len(segments) THEN <<>>
    ELSE LET segment == segments[k]
             processed_text == CleanText(segment.text, proc)
         IN  (IF Strip(processed_text) # <<>>
              THEN <<[text |-> processed_text, start |-> segment.start,
                      end |-> segment.end]>>
              ELSE <<>>) \o ProcessSegments(segments, proc, k + 1)

RECURSIVE WordCount(_, _)
\* sum(len(s["text"].split()) for s in segments)
WordCount(segments, k) ==
    IF k > Len(segments) THEN 0
    ELSE Len(Split(segments[k].text)) + WordCount(segments, k + 1)

\* (a slip: the guard against dividing by zero is missing)
ReductionPercent_Unguarded(original, processed) ==
    [num |-> 100 * (original - processed), den |-> original]

\* process, line 85: 100 * (original - processed) / original if original > 0
\* else 0, as the fraction num / den
ReductionPercent(original, processed) ==
    IF original > 0
    THEN [num |-> 100 * (original - processed), den |-> original]
    ELSE [num |-> 0, den |-> 1]

\* --------------------------------------------- EnhancedSpeechTool.process
\* the texts the k-th segment of a transcription can have
RawTexts(k) ==
    { <<Space>>,
      <<Space, "um">>,
      <<Space, "um", Space, SegWords[k]>>,
      <<SegWords[k], Space, SegWords[k]>>,
      <<Space, "utilize", Space, SegWords[k]>> }

\* what transcribe can return: a dict with "segments" (the k-th one, with
\* Whisper's id, spanning the k-th second), or one without
Transcriptions ==
    {[text |-> <<>>]} \cup
    UNION {{[segments |-> [k \in 1..n |->
                              [id |-> k - 1, text |-> tx[k],
                               start |-> k - 1, end |-> k]]] :
               tx \in {t \in [1..n -> UNION {RawTexts(k) : k \in 1..n}] :
                          \A k \in 1..n : t[k] \in RawTexts(k)}} :
           n \in 0..MaxSegs}

\* temp_dir once transcribe has returned and the raw transcription is saved
\* (enhanced_speech_tool.py:85-87); _save_transcription puts two more files
\* next to the audio unless it fails, which it only logs
\* (transcriber.py:111-146)
TranscribeFiles(files, saved) ==
    LET own == Write(files, Path(TempDir, "raw_transcript.json"), Document)
    IN  IF saved
        THEN Write(Write(own, Path(TempDir, "audio_transcription.json"),
                         Document),
                   Path(TempDir, "audio_transcript.txt"), Document)
        ELSE own

\* EnhancedSpeechTool.process after transcribe has returned
Init ==
    /\ transcription \in Transcriptions
    /\ processor \in [remove_disfluencies : BOOLEAN, simplify_language : BOOLEAN]
    /\ pc = "process"
    /\ ToolIdle
    /\ peer = NoPeer
    /\ processed_segments = <<>>
    /\ original_word_count = 0
    /\ processed_word_count = 0
    /\ reduction_percent = [num |-> 0, den |-> 1]
    /\ synth_segments = <<>>
    /\ piper = <<>>
    /\ fs = TranscribeFiles(Write(NoFiles, Path(TempDir, "audio.mp3"), Document),
                            TRUE)
    /\ synth_i = 0
    /\ synthesized_segments = <<>>
    /\ result_segments = <<>>
    /\ synth_calls = <<>>
    /\ synth_log = NoSynthLog
    /\ mix_segments = <<>>
    /\ maintain_timing = TRUE
    /\ mix_i = 0
    /\ combined = MixStart.combined
    /\ last_end_time = MixStart.last_end_time
    /\ output = <<>>
    /\ alt_combined = MixStart.combined
    /\ alt_last_end_time = MixStart.last_end_time

\* text_processor.process(transcription) (text_processor.py:47-89), its
\* result saved as processed_transcript.json and handed to synthesize
\* (enhanced_speech_tool.py:92-102), where piper will behave in one of the
\* ways it can
Process ==
    /\ pc = "process"
    /\ LET segments == Get(transcription, "segments", <<>>)
           processed == ProcessSegments(segments, processor, 1)
           original == WordCount(segments, 1)
           result == WordCount(processed, 1)
       IN  /\ processed_segments' = processed
           /\ original_word_count' = original
           /\ processed_word_count' = result
           /\ reduction_percent' = ReductionPercent(original, result)
           /\ synth_segments' = processed
           /\ synth_log' = SynthLogEntry(processed)
           /\ \E pp \in [1..Len(processed) -> PiperOutcomes] : piper' = pp
    /\ fs' = Write(fs, Path(TempDir, "processed_transcript.json"), Document)
    /\ pc' = "synth"
    /\ UNCHANGED <<transcription, processor, synth_i,
                   synthesized_segments, result_segments, synth_calls,
                   mix_segments, maintain_timing, mixVars, altVars, toolVars,
                   peer,
                   auxVars>>

Next ==
    Process \/ SynthIter \/ SynthCopy \/ SynthReturn \/ MixIter \/ MixExport

Spec == Init /\ [][Next]_vars

\* ------------------------------------------------ EnhancedSpeechTool, main
\* what __init__ can find on the machine
Envs == [installed : BOOLEAN, voice : BOOLEAN, download : BOOLEAN]

\* (a slip: only the piper executable is looked for)
CheckPiperInstallation_ToolOnly(e) ==
    IF ~e.installed THEN [raised |-> TRUE, env |-> e]
    ELSE [raised |-> FALSE, env |-> e]

\* _check_piper_installation (speech_synthesizer.py:42-81): RuntimeError when
\* piper is not there, or when the voice model is neither in models_dir nor
\* fetched by piper-download
CheckPiperInstallation(e) ==
    IF ~e.installed THEN [raised |-> TRUE, env |-> e]
    ELSE IF e.voice THEN [raised |-> FALSE, env |-> e]
    ELSE IF ~e.download THEN [raised |-> TRUE, env |-> e]
    ELSE [raised |-> FALSE, env |-> [e EXCEPT !.voice = TRUE]]

\* the titles extract returns in the runs of the tool
ToolTitles == {<<"a", Space, "7">>, <<"a", "!">>}

\* f"{segment['start']:.2f}": a whole number of seconds with two decimals
Fixed2(t) == [units |-> t, hundredths |-> 0]

\* f"[{segment['start']:.2f} - {segment['end']:.2f}] {segment['text']}\n"
TranscriptLine(segment) ==
    [start |-> Fixed2(segment.start), end |-> Fixed2(segment.end),
     text |-> segment.text]

\* no stage of the pipeline has anything in hand
PipelineIdle ==
    /\ mix_segments = <<>>
    /\ maintain_timing = TRUE
    /\ mix_i = 0
    /\ combined = MixStart.combined
    /\ last_end_time = MixStart.last_end_time
    /\ output = <<>>
    /\ alt_combined = MixStart.combined
    /\ alt_last_end_time = MixStart.last_end_time
    /\ synth_segments = <<>>
    /\ piper = <<>>
    /\ synth_i = 0
    /\ synthesized_segments = <<>>
    /\ result_segments = <<>>
    /\ synth_calls = <<>>
    /\ synth_log = NoSynthLog
    /\ transcription = <<>>
    /\ processor = [remove_disfluencies |-> TRUE, simplify_language |-> FALSE]
    /\ processed_segments = <<>>
    /\ original_word_count = 0
    /\ processed_word_count = 0
    /\ reduction_percent = [num |-> 0, den |-> 1]
    /\ peer = NoPeer

\* the configuration files of the runs of the tool: one value for each of
\* the two switches of the text processor
ToolConfigFiles ==
    {ConfigFile([remove_disfluencies |-> BoolValue(r),
                 simplify_language |-> BoolValue(l)]) : r, l \in BOOLEAN}

\* main has parsed its arguments; there is no tool yet
ToolNew ==
    /\ pc = "new"
    /\ fs = NoFiles
    /\ PipelineIdle
    /\ title = <<>>
    /\ safe_title = <<>>
    /\ text_transcript = <<>>
    /\ error = NoError
    /\ failing_stage = "none"
    /\ config = BuiltinConfig
    /\ synthesizer = [voice |-> StrValue(Lessac)]
    /\ temp_dir = "none"
    /\ DEFAULT_CONFIG = BuiltinConfig
    /\ environ = NoEnviron
    /\ transcriber = NewTranscriber

\* main, before EnhancedSpeechTool(args.config)
InitTool ==
    /\ pc = "new"
    /\ env \in Envs
    /\ config_file \in ToolConfigFiles
    /\ args = NoArgs
    /\ ToolNew

\* TextProcessor.__init__ (text_processor.py:35-45) with the two values of
\* the configuration, as its `if self.remove_disfluencies:` reads them
TextProcessorInit(cfg) ==
    [remove_disfluencies |-> Truthy(cfg.remove_disfluencies),
     simplify_language |-> Truthy(cfg.simplify_language)]

\* PiperTTSSynthesizer.__init__ (speech_synthesizer.py:28): self.voice = voice
SynthesizerInit(cfg) == [voice |-> cfg.voice]

\* main, lines 160-169: Config.__setattr__ (config.py:171-187) puts each
\* option given into the tool's Config
Override(cfg, a) ==
    [cfg EXCEPT
       !.voice = IF a.voice # <<>> THEN StrValue(a.voice) ELSE @,
       !.remove_disfluencies = IF a.no_disfluencies THEN BoolValue(TRUE) ELSE @,
       !.simplify_language = IF a.simplify THEN BoolValue(TRUE) ELSE @]

\* tool = EnhancedSpeechTool(args.config) and the overrides after it
\* (enhanced_speech_tool.py:33-61, 157-169): Config, mkdtemp, the components
\* from the Config as it is then; the synthesizer's constructor checks piper
\* and its error leaves main, as does an error of mkdir for --output-dir:
\* main has not entered its try block yet
Construct ==
    /\ pc = "new"
    /\ LET c == ConfigInit(DEFAULT_CONFIG, config_file, environ)
           r == CheckPiperInstallation(env)
       IN  /\ DEFAULT_CONFIG' = c.defaults
           /\ temp_dir' = "exists"
           /\ processor' = TextProcessorInit(c.config)
           /\ env' = r.env
           /\ IF r.raised
              THEN /\ pc' = "config_error"
                   /\ config' = c.config
                   /\ UNCHANGED synthesizer
              ELSE /\ synthesizer' = SynthesizerInit(c.config)
                   /\ config' = Override(c.config, args)
                   /\ pc' = IF args.output_dir = "unwritable"
                            THEN "override_error" ELSE "extract"
    /\ UNCHANGED <<fs, mix_segments, maintain_timing, mixVars, altVars,
                   synthVars, transcription, processed_segments,
                   original_word_count, processed_word_count,
                   reduction_percent, title, safe_title, text_transcript,
                   peer, errVars, args, config_file, environ, transcriber>>

\* what process can be given as its source: a type, and whether the thing is
\* there and sound
Sources ==
    [type : {"youtube", "url"}, state : {"ok", "broken"}]
    \cup [type : {"file"}, state : {"ok", "missing", "broken"}]
    \cup [type : {"other"}, state : {"ok"}]

\* (a slip: the file is looked for when the output has been started)
ExtractAudio_ExistsCheckedLate(src, files, partial) ==
    LET output_file == Path(TempDir, "audio.mp3")
    IN  IF src.type \notin {"youtube", "file", "url"}
        THEN [raised |-> TRUE, error |-> [type |-> "ValueError"],
              files |-> files]
        ELSE IF src.type = "file" /\ src.state = "missing"
        THEN [raised |-> TRUE, error |-> [type |-> "FileNotFoundError"],
              files |-> Write(files, output_file, Corrupt)]
        ELSE IF src.state # "ok"
        THEN [raised |-> TRUE,
              error |-> [type |-> CASE src.type = "file" -> "CouldntDecodeError"
                                    [] src.type = "youtube" -> "DownloadError"
                                    [] OTHER -> "CalledProcessError"],
              files |-> IF partial THEN Write(files, output_file, Corrupt)
                        ELSE files]
        ELSE [raised |-> FALSE, error |-> NoError,
              files |-> Write(files, output_file, Document)]

\* AudioExtractor.extract (audio_extractor.py:29-146): ValueError for a type
\* it does not know; for a file, FileNotFoundError before anything else when
\* the path does not exist; an error of the download or of the decoding is
\* logged and raised again, with or without a part of audio.mp3 written
ExtractAudio(src, files, partial) ==
    LET output_file == Path(TempDir, "audio.mp3")
    IN  IF src.type \notin {"youtube", "file", "url"}
        THEN [raised |-> TRUE, error |-> [type |-> "ValueError"],
              files |-> files]
        ELSE IF src.type = "file" /\ src.state = "missing"
        THEN [raised |-> TRUE, error |-> [type |-> "FileNotFoundError"],
              files |-> files]
        ELSE IF src.state # "ok"
        THEN [raised |-> TRUE,
              error |-> [type |-> CASE src.type = "file" -> "CouldntDecodeError"
                                    [] src.type = "youtube" -> "DownloadError"
                                    [] OTHER -> "CalledProcessError"],
              files |-> IF partial THEN Write(files, output_file, Corrupt)
                        ELSE files]
        ELSE [raised |-> FALSE, error |-> NoError,
              files |-> Write(files, output_file, Document)]

\* self.extractor.extract(source, source_type) and what process does with
\* its outcome (enhanced_speech_tool.py:77, 121-125)
Extract ==
    /\ pc = "extract"
    /\ \E src \in Sources, partial \in BOOLEAN, t \in ToolTitles :
         LET r == ExtractAudio(src, fs, partial)
         IN  /\ fs' = r.files
             /\ IF r.raised
                THEN /\ pc' = "raised"
                     /\ error' = r.error
                     /\ failing_stage' = "extract"
                     /\ UNCHANGED title
                ELSE /\ pc' = "transcribe"
                     /\ title' = t
                     /\ UNCHANGED errVars
    /\ UNCHANGED <<mix_segments, maintain_timing, mixVars, altVars, synthVars,
                   procVars, env, safe_title, text_transcript, peer, mainVars,
                   cfgVars, transcriber>>

\* self.transcriber.transcribe(audio_path) returns and the raw transcription
\* is saved (enhanced_speech_tool.py:82-88)
Transcribe ==
    /\ pc = "transcribe"
    /\ \E t \in Transcriptions : transcription' = t
    /\ \E saved \in BOOLEAN : fs' = TranscribeFiles(fs, saved)
    /\ pc' = "process"
    /\ UNCHANGED <<mix_segments, maintain_timing, mixVars, altVars, synthVars,
                   processor, processed_segments, original_word_count,
                   processed_word_count, reduction_percent, toolVars, peer,
                   auxVars>>

\* the stage process is in, by its name
StageName(p) ==
    CASE p = "extract" -> "extract"
      [] p = "transcribe" -> "transcribe"
      [] p = "process" -> "clean"
      [] p = "synth" -> "synthesize"
      [] p = "mix" -> "mix"
      [] OTHER -> "none"

\* transcribe, the cleaning step or the export of mix raises: the except
\* clause of process logs and re-raises (enhanced_speech_tool.py:121-125);
\* the step has written nothing
StageRaises ==
    /\ \/ pc \in {"transcribe", "process"}
       \/ pc = "mix" /\ mix_i = Len(mix_segments)
    /\ pc' = "raised"
    /\ error' = StageError(StageName(pc))
    /\ failing_stage' = StageName(pc)
    /\ UNCHANGED <<fs, mix_segments, maintain_timing, mixVars, altVars,
                   synthVars, procVars, toolVars, peer, mainVars, cfgVars,
                   transcriber>>

\* (a slip: the lines are written from what synthesize returned)
WriteTranscript_FromSynthesized ==
    /\ pc = "done"
    /\ text_transcript' =
          <<[k \in 1..Len(mix_segments) |-> TranscriptLine(mix_segments[k])]>>
    /\ pc' = "returned"
    /\ UNCHANGED <<fs, mix_segments, maintain_timing, mixVars, altVars,
                   synthVars, procVars, env, title, safe_title, peer,
                   auxVars>>

\* the transcript is written, one line per processed segment, and process
\* returns (enhanced_speech_tool.py:112-119)
WriteTranscript ==
    /\ pc = "done"
    /\ text_transcript' =
          <<[k \in 1..Len(processed_segments) |->
                TranscriptLine(processed_segments[k])]>>
    /\ pc' = "returned"
    /\ UNCHANGED <<fs, mix_segments, maintain_timing, mixVars, altVars,
                   synthVars, procVars, env, title, safe_title, peer,
                   auxVars>>

\* writing the transcript raises: open() fails and there is no file, or a
\* write fails after `n` lines (enhanced_speech_tool.py:114-116)
WriteTranscriptRaises ==
    /\ pc = "done"
    /\ \/ text_transcript' = <<>>
       \/ \E n \in 0..Len(processed_segments) :
             text_transcript' =
                 <<[k \in 1..n |-> TranscriptLine(processed_segments[k])]>>
    /\ pc' = "raised"
    /\ error' = StageError("transcript")
    /\ failing_stage' = "transcript"
    /\ UNCHANGED <<fs, mix_segments, maintain_timing, mixVars, altVars,
                   synthVars, procVars, env, title, safe_title, peer,
                   mainVars, cfgVars, transcriber>>

\* main's finally: tool.cleanup() (enhanced_speech_tool.py:127-133,
\* 189-191): shutil.rmtree(self.temp_dir), whose error is logged as a
\* warning and goes no further
ToolCleanup ==
    /\ pc \in {"returned", "raised"}
    /\ \E removed \in BOOLEAN :
         IF removed
         THEN /\ fs' = RemoveTree(fs, TempDir)
              /\ temp_dir' = "removed"
         ELSE UNCHANGED <<fs, temp_dir>>
    /\ pc' = IF pc = "returned" THEN "cleaned" ELSE "aborted"
    /\ UNCHANGED <<mix_segments, maintain_timing, mixVars, altVars, synthVars,
                   procVars, toolVars, peer, errVars, args, config,
                   synthesizer, cfgVars, transcriber>>

NextTool ==
    \/ Construct \/ Extract \/ Transcribe \/ Process
    \/ SynthIter \/ SynthCopy \/ SynthReturn \/ MixIter \/ MixExport
    \/ WriteTranscript \/ WriteTranscriptRaises \/ StageRaises \/ ToolCleanup

SpecTool == InitTool /\ [][NextTool]_vars

\* the command lines of the runs of main: no option, one option, all of them
MainArgs ==
    {NoArgs,
     [NoArgs EXCEPT !.voice = Amy],
     [NoArgs EXCEPT !.no_disfluencies = TRUE],
     [NoArgs EXCEPT !.simplify = TRUE],
     [NoArgs EXCEPT !.output_dir = "created"],
     [NoArgs EXCEPT !.output_dir = "unwritable"],
     [voice |-> Amy, no_disfluencies |-> TRUE, simplify |-> TRUE,
      output_dir |-> "created"]}

\* main has parsed its command line (enhanced_speech_tool.py:136-154); the
\* configuration file is none, or one that turns the removal of disfluencies
\* off
InitMain ==
    /\ env \in {DefaultEnv, [DefaultEnv EXCEPT !.installed = FALSE]}
    /\ config_file \in
         {NoConfigFile, ConfigFile([remove_disfluencies |-> BoolValue(FALSE)])}
    /\ args \in MainArgs
    /\ ToolNew

SpecMain == InitMain /\ [][NextTool]_vars

\* ---- naming the output: process between synthesize and mix ---------------
\* synthesize is about to return (nothing was to be synthesized) in a run
\* whose source has any of the titles
InitTitle ==
    /\ title \in Titles
    /\ env = DefaultEnv
    /\ safe_title = <<>>
    /\ text_transcript = <<>>
    /\ peer = NoPeer
    /\ AuxIdle
    /\ SynthEntry(<<>>, <<>>)

NextTitle == SynthReturn \/ MixExport

SpecTitle == InitTitle /\ [][NextTitle]_vars

\* ---- two tool instances on one machine ----------------------------------
\* the word every segment of the other instance speaks
PeerWord == "zeta"

\* the other instance enters synthesize with n segments, none blank, and its
\* piper never fails
PeerRuns == {[pc |-> "synth", n |-> n, i |-> 0, copied |-> 0] : n \in 1..MaxSegs}

\* this instance's synthesize on segments in one-second slots, the other
\* instance entering its own
InitPeers ==
    /\ ToolIdle
    /\ peer \in PeerRuns
    /\ \E n \in 0..MaxSegs :
         \E tx \in [1..n -> BOOLEAN], pp \in [1..n -> PiperOutcomes] :
           /\ \A k \in 1..n : ~tx[k] => pp[k] = "ok"
           /\ SynthEntry([k \in 1..n |->
                             [text |-> IF tx[k] THEN <<Space, SegWords[k]>>
                                       ELSE <<Space>>,
                              start |-> k - 1, end |-> k]],
                         pp)

\* the other instance, one pass of its first loop
\* (speech_synthesizer.py:102-130): piper writes segment_{i:04d}.wav into
\* that instance's own TemporaryDirectory
PeerSynthIter ==
    /\ peer.pc = "synth"
    /\ peer.i < peer.n
    /\ fs' = Write(fs, Path(PeerDir, SegFile[peer.i + 1]),
                   Audio(<<PeerWord>>, SpeechMs(<<PeerWord>>)))
    /\ peer' = [peer EXCEPT !.i = peer.i + 1]
    /\ UNCHANGED <<pc, mix_segments, maintain_timing, mixVars, altVars,
                   synthVars, procVars, toolVars,
                   auxVars>>

\* the other instance, one pass of its copy loop
\* (speech_synthesizer.py:137-144): the target is gettempdir() / name
PeerCopy ==
    /\ peer.pc = "synth"
    /\ peer.i = peer.n
    /\ peer.copied < peer.n
    /\ LET source_file == Path(PeerDir, SegFile[peer.copied + 1])
           target_file == Path(SysTmp, source_file.name)
       IN  fs' = Write(fs, target_file, fs[source_file])
    /\ peer' = [peer EXCEPT !.copied = peer.copied + 1]
    /\ UNCHANGED <<pc, mix_segments, maintain_timing, mixVars, altVars,
                   synthVars, procVars, toolVars,
                   auxVars>>

\* the other instance's synthesize returns: its TemporaryDirectory is removed
PeerReturn ==
    /\ peer.pc = "synth"
    /\ peer.i = peer.n
    /\ peer.copied = peer.n
    /\ fs' = RemoveTree(fs, PeerDir)
    /\ peer' = [peer EXCEPT !.pc = "returned"]
    /\ UNCHANGED <<pc, mix_segments, maintain_timing, mixVars, altVars,
                   synthVars, procVars, toolVars,
                   auxVars>>

NextPeers ==
    \/ SynthIter \/ SynthCopy \/ SynthReturn \/ MixIter \/ MixExport
    \/ PeerSynthIter \/ PeerCopy \/ PeerReturn

SpecPeers == InitPeers /\ [][NextPeers]_vars

\* ---- Config, one construction after another -------------------------------
\* the files at config_path: none given, an unreadable one, and JSON objects
\* that set a key of the top level, keys of the nested section, or both
ConfigFiles ==
    {NoConfigFile, BadConfigFile,
     ConfigFile([voice |-> StrValue(Amy)]),
     ConfigFile([speaker |-> IntValue(3)]),
     ConfigFile([remove_disfluencies |-> BoolValue(FALSE)]),
     ConfigFile([experimental |->
        DictValue([enable_speaker_diarization |-> BoolValue(TRUE)])]),
     ConfigFile([voice |-> StrValue(Amy),
                 experimental |->
        DictValue([enable_language_model_rescoring |-> BoolValue(TRUE)])])}

\* os.environ: nothing set, or ESH_ variables set to digits, to boolean
\* words, to a decimal fraction, to a name
Environs ==
    {[var \in {} |-> <<>>],
     [ESH_SPEAKER |-> <<"0">>],
     [ESH_SPEAKER |-> <<"1">>],
     [ESH_SPEAKER |-> <<"2">>],
     [ESH_SPEAKER |-> <<"1", "2">>],
     [ESH_SPEAKER |-> <<"1", ".", "5">>],
     [ESH_VOICE |-> Amy],
     [ESH_REMOVE_DISFLUENCIES |-> <<"n", "o">>],
     [ESH_SIMPLIFY_LANGUAGE |-> <<"Y", "e", "s">>],
     [ESH_SPEAKER |-> <<"2">>, ESH_REMOVE_DISFLUENCIES |-> <<"F", "a", "l", "s", "e">>]}

\* the class Config has been defined, no instance has been made
InitConfig ==
    /\ pc = "config"
    /\ fs = NoFiles
    /\ PipelineIdle
    /\ ToolIdle

\* Config(config_path) (config.py:47-64), with any file and any environment
ConfigConstruct ==
    /\ pc = "config"
    /\ \E file \in ConfigFiles, environment \in Environs :
         LET c == ConfigInit(DEFAULT_CONFIG, file, environment)
         IN  /\ config' = c.config
             /\ DEFAULT_CONFIG' = c.defaults
             /\ config_file' = file
             /\ environ' = environment
    /\ UNCHANGED <<pc, fs, mix_segments, maintain_timing, mixVars, altVars,
                   synthVars, procVars, toolVars, peer, errVars, args,
                   synthesizer, temp_dir, transcriber>>

SpecConfig == InitConfig /\ [][ConfigConstruct]_vars

\* ---- WhisperTranscriber ---------------------------------------------------
\* (a slip: the model is loaded on every call)
LoadModel_Always(tr, outcome) ==
    IF outcome = "ok"
    THEN [raised |-> FALSE,
          tr |-> [tr EXCEPT !.model = "loaded",
                            !.attempts = tr.attempts + 1,
                            !.loads = tr.loads + 1]]
    ELSE [raised |-> TRUE, tr |-> [tr EXCEPT !.attempts = tr.attempts + 1]]

\* _load_model (transcriber.py:46-55): nothing when self.model is set; else
\* whisper.load_model, whose error is logged and raised again with
\* self.model still None
LoadModel(tr, outcome) ==
    IF tr.model # "None" THEN [raised |-> FALSE, tr |-> tr]
    ELSE IF outcome = "ok"
    THEN [raised |-> FALSE,
          tr |-> [tr EXCEPT !.model = "loaded",
                            !.attempts = tr.attempts + 1,
                            !.loads = tr.loads + 1]]
    ELSE [raised |-> TRUE, tr |-> [tr EXCEPT !.attempts = tr.attempts + 1]]

\* self.model.transcribe(audio_path, **options) (transcriber.py:85): on None
\* it is an AttributeError; an error is logged and raised again (107-109)
ModelTranscribe(tr, outcome) ==
    IF tr.model = "None" THEN [raised |-> TRUE, tr |-> tr]
    ELSE [raised |-> outcome # "ok", tr |-> [tr EXCEPT !.runs = tr.runs + 1]]

\* _save_transcription (transcriber.py:111-146): the JSON and the text file
\* next to the audio; an error on the way is logged as a warning, whatever
\* was written before it stays
SaveTranscription(files, outcome) ==
    LET json_path == Path(TempDir, "audio_transcription.json")
        text_path == Path(TempDir, "audio_transcript.txt")
    IN  CASE outcome = "ok" ->
                 Write(Write(files, json_path, Document), text_path, Document)
          [] outcome = "text_error" -> Write(files, json_path, Document)
          [] OTHER -> files

\* the most calls of transcribe one transcriber gets
MaxCalls == 5

\* a WhisperTranscriber has been constructed; the audio is in temp_dir
InitWhisper ==
    /\ pc = "whisper_idle"
    /\ fs = Write(NoFiles, Path(TempDir, "audio.mp3"), Document)
    /\ PipelineIdle
    /\ ToolIdle

\* transcribe is called and gets to self._load_model() (transcriber.py:69-73);
\* an error of the load leaves transcribe
WhisperLoad ==
    /\ pc = "whisper_idle"
    /\ transcriber.calls < MaxCalls
    /\ \E outcome \in {"ok", "error"} :
         LET r == LoadModel([transcriber EXCEPT !.calls = transcriber.calls + 1],
                            outcome)
         IN  IF r.raised
             THEN /\ transcriber' = [r.tr EXCEPT !.last = "raised"]
                  /\ pc' = "whisper_idle"
             ELSE /\ transcriber' = [r.tr EXCEPT !.last = "running"]
                  /\ pc' = "whisper_model"
    /\ UNCHANGED <<fs, mix_segments, maintain_timing, mixVars, altVars,
                   synthVars, procVars, toolVars, peer, errVars, mainVars,
                   cfgVars>>

\* the model call and the logging after it (transcriber.py:75-100)
WhisperModel ==
    /\ pc = "whisper_model"
    /\ \E outcome \in {"ok", "error"} :
         LET r == ModelTranscribe(transcriber, outcome)
         IN  IF r.raised
             THEN /\ transcriber' = [r.tr EXCEPT !.last = "raised"]
                  /\ pc' = "whisper_idle"
             ELSE /\ transcriber' = r.tr
                  /\ pc' = "whisper_save"
    /\ UNCHANGED <<fs, mix_segments, maintain_timing, mixVars, altVars,
                   synthVars, procVars, toolVars, peer, errVars, mainVars,
                   cfgVars>>

\* self._save_transcription(result, audio_path) and return result
\* (transcriber.py:103-105)
WhisperSave ==
    /\ pc = "whisper_save"
    /\ \E outcome \in {"ok", "text_error", "error"} : fs' = SaveTranscription(fs, outcome)
    /\ transcriber' = [transcriber EXCEPT !.last = "returned"]
    /\ pc' = "whisper_idle"
    /\ UNCHANGED <<mix_segments, maintain_timing, mixVars, altVars,
                   synthVars, procVars, toolVars, peer, errVars, mainVars,
                   cfgVars>>

NextWhisper == WhisperLoad \/ WhisperModel \/ WhisperSave

SpecWhisper == InitWhisper /\ [][NextWhisper]_vars

\* ------------------------------------------------------------------ claims
\* the segment the loop of mix is about to process, and whether it loads
CurSeg == mix_segments[mix_i + 1]
Loads(seg) ==
    /\ "audio_file" \in DOMAIN seg
    /\ CanLoad(fs, seg.audio_file)
AllLoad(n) == \A k \in 1..n : Loads(mix_segments[k])
IsMixStep == pc = "mix" /\ mix_i' = mix_i + 1

\* ---- C1: with maintain_timing=True the silence inserted right before each
\* appended segment lasts exactly max(0, start - last_end_time) seconds, no
\* silence of the track has a negative (or zero) length, and mix never raises,
\* also when start < last_end_time.
C1_SilenceBeforeSegment ==
    /\ [][(IsMixStep /\ Loads(CurSeg)) =>
            combined' = combined
                \o Silent(Max(0, CurSeg.start - last_end_time) * MsPerSec)
                \o FromFile(fs, CurSeg.audio_file)]_vars
    /\ [](pc # "raised")
    /\ [](\A k \in 1..Len(combined) :
            combined[k].kind = "silence" => combined[k].dur > 0)

\* a finished mix in which a segment that started before the cursor was
\* appended back-to-back to the one before it
C1_Witness ==
    /\ pc = "done"
    /\ Len(mix_segments) = 2
    /\ AllLoad(2)
    /\ mix_segments[1].start > 0
    /\ mix_segments[2].start < mix_segments[1].end
    /\ Len(combined) = 3
    /\ combined[1].kind = "silence"
    /\ combined[2].kind = "audio" /\ combined[3].kind = "audio"



\* ---- C2: for loadable segments s_1..s_n the track is exactly
\* silence(max(0, s_1.start - 0)) ++ audio_1 ++
\* silence(max(0, s_2.start - s_1.end)) ++ audio_2 ++ ..., its length is the
\* sum of the audio lengths and of those silences, and the audio appears in
\* input order, whole.
PrevEnd(segs, k) == IF k = 1 THEN 0 ELSE segs[k - 1].end
GapMs(segs, k) == Max(0, segs[k].start - PrevEnd(segs, k)) * MsPerSec
AudioMs(segs, k) == fs[segs[k].audio_file].dur

RECURSIVE Layout(_, _)
Layout(segs, n) ==
    IF n = 0 THEN <<>>
    ELSE Layout(segs, n - 1) \o Silent(GapMs(segs, n))
                             \o FromFile(fs, segs[n].audio_file)

RECURSIVE SumTo(_, _, _)
SumTo(F(_, _), segs, n) ==
    IF n = 0 THEN 0 ELSE F(segs, n) + SumTo(F, segs, n - 1)

C2_TrackLayout ==
    AllLoad(mix_i) =>
        /\ combined = Layout(mix_segments, mix_i)
        /\ SumDur(combined) = SumTo(AudioMs, mix_segments, mix_i)
                                + SumTo(GapMs, mix_segments, mix_i)
        /\ pc = "done" => output = <<combined>>

\* two segments with one second between them ([s,e] then [e+1,..]), mixed
C2_Witness ==
    /\ pc = "done"
    /\ Len(mix_segments) = 2
    /\ AllLoad(2)
    /\ mix_segments[1].start = 0
    /\ mix_segments[2].start = mix_segments[1].end + 1
    /\ Len(combined) = 3
    /\ SumDur(output[1]) = AudioMs(mix_segments, 1) + MsPerSec
                            + AudioMs(mix_segments, 2)

\* ---- C5: a segment whose audio cannot be loaded (no audio_file entry, or a
\* load error) adds neither silence nor audio, leaves last_end_time as it
\* was, does not stop the loop and does not make mix raise; last_end_time
\* changes only in a pass that appends audio.
C5_UnloadableSkipped ==
    /\ [][(IsMixStep /\ ~Loads(CurSeg)) =>
            /\ combined' = combined
            /\ last_end_time' = last_end_time
            /\ pc' = "mix"]_vars
    /\ [][last_end_time' # last_end_time =>
            /\ IsMixStep /\ Loads(CurSeg)
            /\ Len(combined') > Len(combined)
            /\ combined'[Len(combined')].kind = "audio"]_vars
    /\ [](pc = "done" => mix_i = Len(mix_segments))
    /\ [](pc # "raised")

\* a finished mix whose first segment's file did not decode and whose second
\* segment was appended, the gap measured from 0
C5_Witness ==
    /\ pc = "done"
    /\ Len(mix_segments) = 2
    /\ "audio_file" \in DOMAIN mix_segments[1]
    /\ ~Loads(mix_segments[1])
    /\ mix_segments[1].end > 0
    /\ Loads(mix_segments[2])
    /\ mix_segments[2].start > 0
    /\ combined = Silent(mix_segments[2].start * MsPerSec)
                    \o FromFile(fs, mix_segments[2].audio_file)
    /\ last_end_time = mix_segments[2].end

\* ---- C7 (two mixes of the same segments, audio lengths differing): the
\* silence inserted before every segment is the same in both, the cursor is
\* the same in both, and after an appended segment it is that segment's
\* original end, also when the audio is longer than end - start.
RECURSIVE SilenceMs(_)
SilenceMs(track) ==
    IF track = <<>> THEN 0
    ELSE (IF track[1].kind = "silence" THEN track[1].dur ELSE 0)
            + SilenceMs(Tail(track))

C7_SilenceIgnoresAudioLength ==
    /\ [][IsMixStep =>
            SilenceMs(combined') - SilenceMs(combined)
              = SilenceMs(alt_combined') - SilenceMs(alt_combined)]_vars
    /\ [][(IsMixStep /\ Loads(CurSeg)) =>
            /\ last_end_time' = CurSeg.end
            /\ alt_last_end_time' = CurSeg.end]_vars
    /\ [](last_end_time = alt_last_end_time)

\* both mixes finished, the second with longer audio than the first, and a
\* silence before the second segment
C7_Witness ==
    /\ pc = "done"
    /\ Len(mix_segments) = 2
    /\ AllLoad(2)
    /\ mix_segments[2].start > mix_segments[1].end
    /\ SilenceMs(combined) > 0
    /\ SilenceMs(alt_combined) = SilenceMs(combined)
    /\ SumDur(alt_combined) > SumDur(combined)
    /\ Overlong > (mix_segments[1].end - mix_segments[1].start) * MsPerSec

\* ---- C8: if every segment loads, every audio lasts end - start, and every
\* start is at least the previous end, then every segment's audio begins at
\* its original start and the track ends at the last segment's end.
RECURSIVE AudioOffsets(_, _)
\* the offsets (ms) at which the audio chunks of a track begin
AudioOffsets(track, at) ==
    IF track = <<>> THEN <<>>
    ELSE (IF track[1].kind = "audio" THEN <<at>> ELSE <<>>)
            \o AudioOffsets(Tail(track), at + track[1].dur)

DurationsMatch ==
    /\ AllLoad(Len(mix_segments))
    /\ \A k \in 1..Len(mix_segments) :
         /\ AudioMs(mix_segments, k)
              = (mix_segments[k].end - mix_segments[k].start) * MsPerSec
         /\ mix_segments[k].start >= PrevEnd(mix_segments, k)

C8_StartsHonoured ==
    (pc = "done" /\ mix_segments # <<>> /\ DurationsMatch) =>
        /\ AudioOffsets(combined, 0)
             = [k \in 1..Len(mix_segments) |-> mix_segments[k].start * MsPerSec]
        /\ SumDur(combined) = mix_segments[Len(mix_segments)].end * MsPerSec

\* two matching segments, the first one starting after 0
C8_Witness ==
    /\ pc = "done"
    /\ Len(mix_segments) = 2
    /\ DurationsMatch
    /\ mix_segments[1].start > 0
    /\ AudioOffsets(combined, 0)[2] = mix_segments[2].start * MsPerSec

\* ---- C9 as stated: last_end_time starts at 0 and never decreases from one
\* pass of the loop to the next, whatever the input.
C9_CursorMonotone ==
    /\ [](mix_i = 0 => last_end_time = 0)
    /\ [][last_end_time' >= last_end_time]_vars

\* ---- C9 as amended: last_end_time starts at 0; a pass that appends a
\* segment sets it to that segment's end and a pass that skips one leaves it
\* alone; it never decreases when the ends of the loadable segments are
\* non-decreasing in input order.
EndsAscend ==
    \A j, k \in 1..Len(mix_segments) :
        (j < k /\ Loads(mix_segments[j]) /\ Loads(mix_segments[k]))
            => mix_segments[j].end <= mix_segments[k].end

C9_CursorFollowsEnds ==
    /\ [](mix_i = 0 => last_end_time = 0)
    /\ [][IsMixStep =>
            last_end_time' = IF Loads(CurSeg) THEN CurSeg.end
                             ELSE last_end_time]_vars
    /\ [][EndsAscend => last_end_time' >= last_end_time]_vars

\* two overlapping segments with ascending ends, both appended
C9_Witness ==
    /\ pc = "done"
    /\ Len(mix_segments) = 2
    /\ AllLoad(2)
    /\ mix_segments[2].start < mix_segments[1].end
    /\ mix_segments[1].end < mix_segments[2].end
    /\ last_end_time = mix_segments[2].end


\* ---- C3: whatever succeeds or fails, the list synthesize returns is a
\* subsequence by index of its input: there is a strictly increasing map
\* from the positions of the result to positions of the input such that every
\* returned segment carries the start and end (and the stripped text) of the
\* input segment it is mapped to.
Returned == pc \in {"mix", "done"}

IsSubsequence(res, inp) ==
    \E f \in [1..Len(res) -> 1..Len(inp)] :
        /\ \A j, k \in 1..Len(res) : j < k => f[j] < f[k]
        /\ \A j \in 1..Len(res) :
             /\ res[j].start = inp[f[j]].start
             /\ res[j].end = inp[f[j]].end
             /\ res[j].text = Strip(inp[f[j]].text)

C3_ResultIsSubsequence ==
    /\ IsSubsequence(result_segments, synth_segments)
    /\ Returned => mix_segments = result_segments

\* a call that returned both of its segments, in input order
C3_Witness ==
    /\ Returned
    /\ Len(synth_segments) = 2
    /\ Len(mix_segments) = 2
    /\ mix_segments[1].text # mix_segments[2].text
    /\ mix_segments[1].text = Strip(synth_segments[1].text)

\* ---- C4: a failure while producing the audio of one segment never aborts
\* synthesize, also when the synthesis call exits without having written its
\* output file: synthesize returns, every non-blank segment has been
\* attempted, and the result holds exactly the non-blank segments whose audio
\* was produced.
NonBlank(k) == Strip(synth_segments[k].text) # <<>>
Produced == {k \in 1..Len(synth_segments) : NonBlank(k) /\ piper[k] = "ok"}

C4_FailureNeverAborts ==
    /\ pc # "raised"
    /\ Returned =>
         /\ Len(mix_segments) = Cardinality(Produced)
         /\ \A k \in Produced :
              \E j \in 1..Len(mix_segments) :
                  mix_segments[j].audio_file.name = SegFile[k]
         /\ \A k \in 1..Len(synth_segments) :
              NonBlank(k) => \E c \in 1..Len(synth_calls) : synth_calls[c] = k - 1

\* ---- C6: when some segments fail synthesis, the track made by synthesize
\* followed by mix is the track made for the same segments with the failed
\* ones removed beforehand (none failing): gaps are taken between surviving
\* segments only, and nothing stands in for a dropped segment.
RECURSIVE SynthFold(_, _, _, _)
\* the first loop of synthesize from index i on, piper never failing
SynthFold(segs, i, files, synthesized) ==
    IF i = Len(segs) THEN [files |-> files, synthesized |-> synthesized]
    ELSE LET r == SynthIteration(segs[i + 1], i, "ok", files, synthesized)
         IN  SynthFold(segs, i + 1, r.files, r.synthesized)

RECURSIVE CopyFold(_, _, _, _)
\* the second loop of synthesize from position k on (no source missing)
CopyFold(synthesized, k, files, result) ==
    IF k > Len(synthesized) THEN [files |-> files, result |-> result]
    ELSE LET r == CopyIteration(synthesized[k], files, result)
         IN  CopyFold(synthesized, k + 1, r.files, r.result)

RECURSIVE MixFold(_, _, _, _, _)
\* the loop of mix from position k on
MixFold(segs, k, files, comb, last) ==
    IF k > Len(segs) THEN comb
    ELSE LET r == MixIteration(segs[k], files, TRUE, comb, last)
         IN  MixFold(segs, k + 1, files, r.combined, r.last_end_time)

\* synthesize then mix, on `segs`, piper never failing
TrackOf(segs) ==
    LET s == SynthFold(segs, 0, NoFiles, <<>>)
        c == CopyFold(s.synthesized, 1, s.files, <<>>)
    IN  MixFold(c.result, 1, Cleanup(c.files), MixStart.combined,
                MixStart.last_end_time)

RECURSIVE Without(_, _, _)
\* the segments of the input from position k on whose synthesis does not fail
Without(segs, pp, k) ==
    IF k > Len(segs) THEN <<>>
    ELSE (IF pp[k] = "error" THEN <<>> ELSE <<segs[k]>>)
            \o Without(segs, pp, k + 1)

\* the segments that reach the mixer: not blank, synthesis not failed
Survivors ==
    SelectSeq(Without(synth_segments, piper, 1),
              LAMBDA seg : Strip(seg.text) # <<>>)

C6_DroppedLeaveNoTrace ==
    pc = "done" =>
        /\ output = <<TrackOf(Without(synth_segments, piper, 1))>>
        /\ SilenceMs(output[1]) = SumTo(GapMs, Survivors, Len(Survivors))

\* a finished run whose first segment failed synthesis and whose second one
\* is in the track after a silence measured from 0
C6_Witness ==
    /\ pc = "done"
    /\ Len(synth_segments) = 2
    /\ NonBlank(1) /\ piper[1] = "error"
    /\ synth_segments[1].end > 0
    /\ synth_segments[2].start > synth_segments[1].end
    /\ Len(output[1]) = 2
    /\ output[1][1] = [kind |-> "silence",
                       dur |-> synth_segments[2].start * MsPerSec]
    /\ output[1][2].text = Strip(synth_segments[2].text)


\* ---- C10: nothing fails on empty input: mix on an empty segment list
\* exports a track of length 0 without raising, and process on a
\* transcription without segments returns the empty list and reports a
\* reduction of 0.
C10_EmptyInput ==
    /\ (pc # "process" /\ Get(transcription, "segments", <<>>) = <<>>) =>
         /\ processed_segments = <<>>
         /\ original_word_count = 0
         /\ reduction_percent = [num |-> 0, den |-> 1]
         /\ pc # "raised"
    /\ (pc = "done" /\ mix_segments = <<>>) =>
         /\ Len(output) = 1
         /\ SumDur(output[1]) = 0

\* a whole run on a transcription that has a "segments" list, empty
C10_Witness ==
    /\ pc = "done"
    /\ "segments" \in DOMAIN transcription
    /\ transcription.segments = <<>>
    /\ processed_segments = <<>>
    /\ mix_segments = <<>>
    /\ output = << <<>> >>

\* ---- C11: process emits, in input order, exactly one segment for each
\* input segment whose cleaned text is not blank, carrying the cleaned text
\* and the input segment's start and end; a segment whose cleaned text is
\* blank yields nothing, so the output is never longer than the input.
RawSegments == Get(transcription, "segments", <<>>)
Kept == {k \in 1..Len(RawSegments) :
            Strip(CleanText(RawSegments[k].text, processor)) # <<>>}

C11_OneSegmentPerNonBlank ==
    pc # "process" =>
        /\ Len(processed_segments) = Cardinality(Kept)
        /\ Len(processed_segments) <= Len(RawSegments)
        /\ \E f \in [1..Len(processed_segments) -> Kept] :
             /\ \A j, k \in 1..Len(processed_segments) : j < k => f[j] < f[k]
             /\ \A j \in 1..Len(processed_segments) :
                  processed_segments[j] =
                      [text |-> CleanText(RawSegments[f[j]].text, processor),
                       start |-> RawSegments[f[j]].start,
                       end |-> RawSegments[f[j]].end]

\* of two segments the first cleans to nothing and the second is emitted
C11_Witness ==
    /\ pc # "process"
    /\ Len(RawSegments) = 2
    /\ Split(RawSegments[1].text) # <<>>
    /\ Kept = {2}
    /\ Len(processed_segments) = 1
    /\ processed_segments[1].start = RawSegments[2].start
    /\ processed_segments[1].text # RawSegments[2].text

\* ---- C12: with remove_disfluencies and simplify_language both off,
\* process returns the input segments unchanged (text, start, end, order)
\* but for the blank ones, which are removed; process applied to its own
\* output returns that output.
CleanerOff == ~processor.remove_disfluencies /\ ~processor.simplify_language
AsSegment(s) == [text |-> s.text, start |-> s.start, end |-> s.end]
NotBlank(s) == Split(s.text) # <<>>

C12_IdentityCleanerKeepsSegments ==
    (CleanerOff /\ pc # "process") =>
        /\ processed_segments =
              SelectSeq([k \in 1..Len(RawSegments) |-> AsSegment(RawSegments[k])],
                        NotBlank)
        /\ ProcessSegments(processed_segments, processor, 1) = processed_segments

\* the blank first segment is gone, the second keeps its leading space
C12_Witness ==
    /\ CleanerOff
    /\ pc # "process"
    /\ Len(RawSegments) = 2
    /\ ~NotBlank(RawSegments[1])
    /\ Len(processed_segments) = 1
    /\ processed_segments[1].text = RawSegments[2].text
    /\ processed_segments[1].text[1] = Space

\* ---- C20: synthesize visits the segments in input order and calls
\* _synthesize_text exactly once for each segment whose stripped text is not
\* empty (no second call after a failure) and never for one whose stripped
\* text is empty; those blank segments are not in the result.
C20_OneCallPerNonBlank ==
    /\ \A k \in 1..synth_i :
         Cardinality({c \in DOMAIN synth_calls : synth_calls[c] = k - 1})
             = IF NonBlank(k) THEN 1 ELSE 0
    /\ \A c \in DOMAIN synth_calls : synth_calls[c] < synth_i
    /\ \A c, d \in DOMAIN synth_calls : c < d => synth_calls[c] < synth_calls[d]
    /\ \A j \in DOMAIN result_segments :
         \E k \in 1..Len(synth_segments) :
             /\ NonBlank(k)
             /\ result_segments[j].audio_file.name = SegFile[k]
             /\ result_segments[j].text # <<>>

\* a blank segment never handed to piper, then one whose only call failed
C20_Witness ==
    /\ pc = "mix"
    /\ Len(synth_segments) = 2
    /\ ~NonBlank(1)
    /\ NonBlank(2) /\ piper[2] = "error"
    /\ synth_calls = <<1>>
    /\ mix_segments = <<>>

\* ---- C13: in every run of EnhancedSpeechTool.process the stages start in
\* the order extract, transcribe, clean, synthesize, mix; a stage starts only
\* when the one before has returned its complete output, runs at most once,
\* and never calls back into an earlier one.
StageRank(p) ==
    CASE p = "new" -> 0
      [] p = "extract" -> 1
      [] p = "transcribe" -> 2
      [] p = "process" -> 3
      [] p = "synth" -> 4
      [] p = "mix" -> 5
      [] p = "done" -> 6
      [] p = "returned" -> 7
      [] OTHER -> 8

\* what a stage finds when it starts, and what it has not touched before
StageHandover ==
    /\ pc = "transcribe" => Path(TempDir, "audio.mp3") \in DOMAIN fs
    /\ pc = "process" => transcription \in Transcriptions
    /\ pc = "synth" =>
         /\ processed_segments = ProcessSegments(RawSegments, processor, 1)
         /\ synth_segments = processed_segments
    /\ pc = "mix" =>
         /\ synth_i = Len(synth_segments)
         /\ Len(result_segments) = Len(synthesized_segments)
         /\ mix_segments = result_segments
    /\ StageRank(pc) <= 2 => transcription = <<>>
    /\ StageRank(pc) <= 3 => processed_segments = <<>>
    /\ StageRank(pc) <= 3 => synth_i = 0 /\ synth_calls = <<>>
    /\ StageRank(pc) <= 4 => mix_i = 0 /\ combined = <<>>
    /\ StageRank(pc) <= 5 => output = <<>>

\* a step moves to the next stage or out of the run, and leaves alone what
\* the stages before the current one produced
StageStep ==
    /\ pc' # pc => StageRank(pc') = StageRank(pc) + 1 \/ StageRank(pc') = 8
    /\ StageRank(pc) >= 2 => title' = title
    /\ StageRank(pc) >= 3 => transcription' = transcription
    /\ StageRank(pc) >= 4 => processed_segments' = processed_segments
    /\ StageRank(pc) >= 5 =>
         /\ result_segments' = result_segments
         /\ synth_calls' = synth_calls
    /\ StageRank(pc) >= 6 => output' = output

C13_StagesInOrder == [](StageHandover) /\ [][StageStep]_vars

\* a run that went through every stage with two segments
C13_Witness ==
    /\ pc = "returned"
    /\ Len(RawSegments) = 2
    /\ Len(processed_segments) = 2
    /\ Len(synth_calls) = 2
    /\ mix_i = 2
    /\ Len(output) = 1

\* ---- C14: when a step of EnhancedSpeechTool.process raises (extraction,
\* transcription, cleaning, synthesis, mixing or writing the transcript), the
\* run is aborted and nothing of it is left in the output directory: neither
\* the enhanced audio file nor the transcript file exists afterwards.
C14_NoPartialOutput ==
    pc \in {"raised", "aborted"} => output = <<>> /\ text_transcript = <<>>

\* ---- C15: on a successful run the transcript has exactly one line per
\* cleaned segment, in their order, each '[start - end] text' of that
\* segment; it is the same whichever segments failed synthesis or loading.
C15_TranscriptFromCleaned ==
    pc \in {"returned", "cleaned"} =>
        /\ Len(text_transcript) = 1
        /\ Len(text_transcript[1]) = Len(processed_segments)
        /\ \A k \in DOMAIN processed_segments :
             text_transcript[1][k] =
                 [start |-> [units |-> processed_segments[k].start,
                             hundredths |-> 0],
                  end |-> [units |-> processed_segments[k].end,
                           hundredths |-> 0],
                  text |-> processed_segments[k].text]

\* the first of two cleaned segments failed synthesis and is in the
\* transcript all the same
C15_Witness ==
    /\ pc = "returned"
    /\ Len(processed_segments) = 2
    /\ piper[1] = "error"
    /\ Len(mix_segments) = 1
    /\ Len(text_transcript[1]) = 2
    /\ text_transcript[1][1].text = processed_segments[1].text

\* ---- C16: the sanitized title is the source title without the characters
\* that are not alphanumeric, whitespace or hyphen, stripped, each internal
\* run of whitespace replaced by one underscore: it holds no whitespace, no
\* two underscores from one run, only alphanumerics, hyphens and underscores.
RECURSIVE RunsToUnderscore(_)
RunsToUnderscore(t) ==
    IF t = <<>> THEN <<>>
    ELSE IF t[1] \in Whitespace THEN <<"_">> \o RunsToUnderscore(LStripWs(t))
    ELSE <<t[1]>> \o RunsToUnderscore(Tail(t))

C16_SanitizedTitle ==
    pc # "synth" =>
        /\ \A j \in DOMAIN safe_title : safe_title[j] \notin Whitespace
        /\ safe_title =
              RunsToUnderscore(RStripWs(LStripWs(
                  SelectSeq(title, LAMBDA c : c \in {"a", "7", "-"}
                                                  \cup Whitespace))))

\* ---- C17: a configuration error (piper missing, or the voice model
\* neither present nor downloadable) is fatal before any stage runs: it is
\* raised before extract is called, no stage is ever invoked and no output
\* is written.
ConfigurationError == ~env.installed \/ (~env.voice /\ ~env.download)

C17_ConfigErrorBeforeStages ==
    ConfigurationError =>
        /\ pc \in {"new", "config_error"}
        /\ fs = NoFiles
        /\ title = <<>>
        /\ transcription = <<>>
        /\ processed_segments = <<>>
        /\ synth_calls = <<>>
        /\ mix_i = 0
        /\ output = <<>>
        /\ text_transcript = <<>>

\* piper is there, the voice model is not and cannot be fetched
C17_Witness ==
    /\ pc = "config_error"
    /\ env.installed
    /\ ~env.voice
    /\ ~env.download

\* ---- C18: no intermediate file outlives a run: after process has finished
\* and cleanup has run, the extracted audio, the transcripts and the
\* per-segment synthesized audio are all removed.
C18_NoIntermediateLeft ==
    pc = "cleaned" => DOMAIN fs = {}

\* ---- C19: intermediate audio files are written once and by one writer:
\* no path is written twice, in particular not by two runs of separate tool
\* instances, so no mixer reads a segment file the other run produced.
OwnAudio(track) ==
    \A j \in DOMAIN track :
        track[j].kind = "audio" =>
            \A w \in DOMAIN track[j].text : track[j].text[w] # PeerWord

WrittenOnce == \A p \in DOMAIN fs \cap DOMAIN fs' : fs'[p] = fs[p]

C19_NoSharedPath == [](OwnAudio(combined)) /\ [][WrittenOnce]_vars

\* ---- C28: AudioMixer.mix (maintain_timing on) and
\* SpeechClarityEnhancer.combine_audio agree on segments that all carry
\* start, end and a file, loadable or not: same silences, same audio in the
\* same order, same total duration, same last end value.
C28_AssemblersAgree ==
    /\ alt_combined = combined
    /\ SilenceMs(alt_combined) = SilenceMs(combined)
    /\ SumDur(alt_combined) = SumDur(combined)
    /\ alt_last_end_time = last_end_time

\* both loops are through: the first file did not load, the second one is in
\* the track after a silence
C28_Witness ==
    /\ pc = "done"
    /\ Len(mix_segments) = 2
    /\ ~CanLoad(fs, mix_segments[1].audio_file)
    /\ mix_segments[1].end > 0
    /\ mix_segments[2].start > 0
    /\ Len(alt_combined) = 2
    /\ alt_combined[1].kind = "silence"
    /\ alt_last_end_time = mix_segments[2].end

\* ---- C23: every completed synthesize call reports the number of segments
\* requested and the number that succeeded: the first is the number of input
\* segments, the second the number of segments returned to the mixer, and
\* their difference the number of input segments lost.
Lost ==
    {k \in 1..Len(synth_segments) :
        \A j \in 1..Len(mix_segments) :
            mix_segments[j].audio_file.name # SegFile[k]}

C23_CountsReported ==
    Returned =>
        /\ synth_log.requested = Len(synth_segments)
        /\ synth_log.succeeded = Len(mix_segments)
        /\ synth_log.requested - synth_log.succeeded = Cardinality(Lost)

\* a call that returned one of its two segments and said so
C23_Witness ==
    /\ Returned
    /\ Len(synth_segments) = 2
    /\ Len(mix_segments) = 1
    /\ synth_log = [requested |-> 2, succeeded |-> 1]
    /\ Cardinality(Lost) = 1

\* ---- C30: over any sequence of transcribe calls on one WhisperTranscriber
\* the model is loaded lazily and at most once successfully: no load before
\* the first call, no load once one has succeeded, a failed load leaves the
\* model unset and the next call loads again, the model call is never made
\* while the model is unset; and a failure while the side files are saved
\* never makes transcribe fail.
LoadAttempted == transcriber'.attempts = transcriber.attempts + 1

C30_LazyLoadOnce ==
    /\ [](/\ transcriber.calls = 0 => transcriber.attempts = 0
          /\ transcriber.loads <= 1
          /\ (transcriber.model = "None") = (transcriber.loads = 0)
          /\ pc \in {"whisper_model", "whisper_save"} =>
                 transcriber.model = "loaded"
          /\ transcriber.runs > 0 => transcriber.loads = 1)
    /\ [][/\ transcriber.model = "loaded" =>
               /\ transcriber'.attempts = transcriber.attempts
               /\ transcriber'.model = "loaded"
          /\ (pc = "whisper_idle" /\ transcriber.model = "None") =>
               LoadAttempted
          /\ (LoadAttempted /\ transcriber'.loads = transcriber.loads) =>
               /\ transcriber'.model = "None"
               /\ transcriber'.last = "raised"
          /\ transcriber'.runs # transcriber.runs =>
               transcriber.model = "loaded"
          /\ pc = "whisper_save" =>
               /\ transcriber'.last = "returned"
               /\ pc' = "whisper_idle"]_vars

\* a first call whose load failed, a second that loaded the model and whose
\* side files could not be saved, and a third that ran on the same model
C30_Witness ==
    /\ pc = "whisper_idle"
    /\ transcriber.calls = 3
    /\ transcriber.attempts = 2
    /\ transcriber.loads = 1
    /\ transcriber.runs = 2
    /\ transcriber.last = "returned"
    /\ Path(TempDir, "audio_transcript.txt") \notin DOMAIN fs

\* ---- C21: a failure of the source stages is fatal: when extract raises
\* (unsupported source type, local file that does not exist, download or
\* decoding failure) or transcribe raises, process raises to its caller, the
\* cleaner, the synthesizer and the mixer are never invoked and no output
\* file is produced; for a local file that does not exist the not-found
\* error is raised before anything is written to the scratch directory.
SourceStageFailed == failing_stage \in {"extract", "transcribe"}

C21_SourceFailureFatal ==
    /\ SourceStageFailed =>
         /\ pc \in {"raised", "aborted"}
         /\ error # NoError
         /\ processed_segments = <<>>
         /\ synth_log = NoSynthLog
         /\ synth_i = 0
         /\ synth_calls = <<>>
         /\ mix_i = 0
         /\ combined = <<>>
         /\ output = <<>>
         /\ text_transcript = <<>>
    /\ (failing_stage = "extract" /\ error.type = "FileNotFoundError") =>
         \A path \in DOMAIN fs : path.dir # TempDir
    /\ (failing_stage = "extract" /\ pc = "raised") => transcription = <<>>

\* the local file is not there: process has raised FileNotFoundError and the
\* scratch directory is still empty
C21_Witness ==
    /\ pc = "raised"
    /\ failing_stage = "extract"
    /\ error = [type |-> "FileNotFoundError"]
    /\ temp_dir = "exists"
    /\ fs = NoFiles

\* ---- C22: when a stage of EnhancedSpeechTool.process fails, the error the
\* caller gets has the name of the failing stage attached, so that the error
\* alone tells which of extract, transcribe, clean, synthesize or mix failed.
AttachedStage(e) == IF "stage" \in DOMAIN e THEN e.stage ELSE "none"

C22_ErrorNamesStage ==
    (/\ pc \in {"raised", "aborted"}
     /\ failing_stage \in {"extract", "transcribe", "clean", "synthesize",
                           "mix"}) =>
        AttachedStage(error) = failing_stage

\* ---- C24: command-line overrides take effect on the run they are given
\* for: with --voice V the synthesizer of the run has voice V, with
\* --no-disfluencies or --simplify the text processor of the run has
\* remove_disfluencies or simplify_language set; the components agree with
\* the configuration as overridden.
ComponentsInUse == StageRank(pc) \in 1..7

C24_OverridesInEffect ==
    ComponentsInUse =>
        /\ args.voice # <<>> => synthesizer.voice = StrValue(args.voice)
        /\ args.no_disfluencies => processor.remove_disfluencies
        /\ args.simplify => processor.simplify_language
        /\ synthesizer.voice = config.voice
        /\ processor = TextProcessorInit(config)

\* ---- C26: on every path through main on which the tool was constructed,
\* cleanup runs exactly once after process has finished, returned or raised,
\* and leaves the outcome of process as it was; every temporary directory an
\* EnhancedSpeechTool created is removed before main exits.
MainExited == pc \in {"cleaned", "aborted", "config_error", "override_error"}

CleanupFollows ==
    pc \in {"returned", "raised"} =>
        /\ pc' = IF pc = "returned" THEN "cleaned" ELSE "aborted"
        /\ error' = error
        /\ output' = output
        /\ text_transcript' = text_transcript

C26_TempDirRemoved ==
    /\ [](MainExited => temp_dir # "exists")
    /\ [](pc \in {"returned", "raised"} => temp_dir = "exists")
    /\ [][CleanupFollows]_vars

\* ---- C25: Config._load_from_env converts numeric strings to numbers: a
\* mapped environment variable set to a string of decimal digits (ESH_SPEAKER
\* set to 0, 1 or 2, say) gives the integer with that value, and the boolean
\* words true/yes and false/no give booleans.
IsValue(value, type, v) == value.t = type /\ value.v = v

C25_DigitsBecomeIntegers ==
    \A var \in DOMAIN environ :
        LET value == environ[var]
            result == config[EnvMapping[var]]
        IN  /\ IsDigit(value) => IsValue(result, "int", ParseInt(value))
            /\ LowerStr(value) \in {<<"t", "r", "u", "e">>, <<"y", "e", "s">>}
                 => IsValue(result, "bool", TRUE)
            /\ LowerStr(value) \in {<<"f", "a", "l", "s", "e">>, <<"n", "o">>}
                 => IsValue(result, "bool", FALSE)

\* ---- C27: constructing one Config never changes another: after any
\* sequence of constructions from files, files that set keys of the nested
\* 'experimental' section among them, Config.DEFAULT_CONFIG still holds its
\* original values, and a Config constructed with no file and no environment
\* override has exactly the default values.
C27_DefaultsUntouched ==
    /\ DEFAULT_CONFIG = BuiltinConfig
    /\ (config_file = NoConfigFile /\ DOMAIN environ = {}) =>
           config = BuiltinConfig

\* ---- C29: a configuration value is the environment value when the mapped
\* variable is set, else the value of the file when the file was loaded and
\* defines the key, else the built-in default; a file that cannot be read or
\* parsed is ignored without an error, which leaves the defaults and the
\* environment overrides.
SameValue(a, b) == a.t = b.t /\ a.v = b.v

FileDefines(key) ==
    config_file.state = "loaded" /\ key \in DOMAIN config_file.content

EnvDefines(key) ==
    \E var \in DOMAIN environ : EnvMapping[var] = key

Resolved(key) ==
    IF EnvDefines(key)
    THEN ConvertEnv(environ[CHOOSE var \in DOMAIN environ :
                               EnvMapping[var] = key])
    ELSE IF FileDefines(key) THEN config_file.content[key]
    ELSE BuiltinConfig[key]

ResolvedNested(key) ==
    IF FileDefines("experimental")
       /\ key \in DOMAIN config_file.content.experimental.v
    THEN config_file.content.experimental.v[key]
    ELSE BuiltinConfig.experimental.v[key]

C29_Precedence ==
    /\ \A key \in DOMAIN BuiltinConfig \ {"experimental"} :
         SameValue(config[key], Resolved(key))
    /\ \A key \in DOMAIN BuiltinConfig.experimental.v :
         SameValue(config.experimental.v[key], ResolvedNested(key))
    /\ config_file = BadConfigFile =>
         \A key \in DOMAIN BuiltinConfig \ {"experimental"} :
             SameValue(config[key],
                       IF EnvDefines(key) THEN Resolved(key)
                       ELSE BuiltinConfig[key])

====
